---- MODULE Spec2Model ----
(***************************************************************************)
(* The blockstore write cache (package blockstore): the registry of cache  *)
(* entries behind one mutex, the copy-on-write part buffers, the load      *)
(* paths, the read and write operations and the flusher.                   *)
(*                                                                         *)
(* Go objects reached through pointers (DataCacheEntry, FileCacheEntry)    *)
(* live in two heaps, dataHeap and fileHeap, and are named by positive     *)
(* identifiers; 0 is the nil pointer.  An action is one critical section   *)
(* of the store lock or one call of the backing store.                     *)
(***************************************************************************)
EXTENDS Integers, Sequences, FiniteSets, TLC

VARIABLES
    Cache,            \* BlockStore.Cache: key -> CacheEntry (present = FALSE: no entry)
    NextIntentionId,  \* BlockStore.NextIntentionId
    dataHeap,         \* the DataCacheEntry objects, by pointer
    fileHeap,         \* the FileCacheEntry objects, by pointer
    db,               \* the backing store: per key the file record and its parts
    cl,               \* per client goroutine: the operation in flight and its locals
    fl,               \* the flusher goroutine
    now,              \* time.Now().UnixMilli()
    panicked          \* a goroutine panicked: the process is gone

vars == <<Cache, NextIntentionId, dataHeap, fileHeap, db, cl, fl, now, panicked>>

-----------------------------------------------------------------------------
(* Bounds and program constants *)

PartSize == 2          \* partDataSize, as a test overrides it
NoPartIdx == -1
CircMaxSize == 2 * PartSize   \* the max size of the circular files of the model: 2 parts
MaxByte == 2           \* data bytes are 1..MaxByte; 0 is the zero byte
MaxInitLen == 3        \* longest file found in the backing store at start
MaxOps == 2            \* operations the first of the concurrent clients starts
MaxOpsOther == 1       \* operations the second one starts

Keys == {"f"}
Clients == {"c1", "c2", "c3"}
First == "c1"
Second == "c2"
Third == "c3"
Null == 0              \* a nil value in a FileMeta map
EmptyMeta == <<>>
NilMeta == [nil |-> TRUE]   \* the nil FileMeta: read as a map without keys, not assignable

-----------------------------------------------------------------------------
(* Small helpers *)

Min(a, b) == IF a < b THEN a ELSE b

MaxOfSet(S) == CHOOSE m \in S : \A x \in S : x <= m

MapPut(m, k, v) == [x \in DOMAIN m \cup {k} |-> IF x = k THEN v ELSE m[x]]

MapDel(m, k) == [x \in DOMAIN m \ {k} |-> m[x]]

Zeros(n) == [i \in 1..n |-> 0]

\* the built-in copy(dst, src): min(len(dst), len(src)) elements
GoCopy(dst, src) == [i \in 1..Len(dst) |-> IF i <= Len(src) THEN src[i] ELSE dst[i]]

\* s[:n] of a slice whose backing array holds zeros past len(s)
Reslice(s, n) == IF n <= Len(s) THEN SubSeq(s, 1, n) ELSE s \o Zeros(n - Len(s))

\* s[from:to], 0-based
Slice(s, from, to) == SubSeq(s, from + 1, to)

\* the smallest pointer that names no object of the heap
FreshPtr(heap) ==
    CHOOSE n \in 1..(Cardinality(DOMAIN heap) + 1) :
        /\ n \notin DOMAIN heap
        /\ \A m \in 1..(n - 1) : m \in DOMAIN heap

-----------------------------------------------------------------------------
(* BlockFile *)

NoOpts == [MaxSize |-> 0, Circular |-> FALSE, IJson |-> FALSE]

NoFile == [Size |-> 0, ModTs |-> 0, CreatedTs |-> 0, Meta |-> EmptyMeta, Opts |-> NoOpts]

\* the keys "for k, v := range meta" visits
rangeMeta(meta) == IF meta = NilMeta THEN {} ELSE DOMAIN meta

copyMeta(meta) == [k \in rangeMeta(meta) |-> meta[k]]

DeepCopy(f) == [f EXCEPT !.Meta = copyMeta(f.Meta)]

partIdxAtOffset(f, offset) ==
    LET partIdx == offset \div PartSize
    IN  IF f.Opts.Circular
        THEN partIdx % (f.Opts.MaxSize \div PartSize)
        ELSE partIdx

getLastIncompletePartNum(f) ==
    IF f.Size % PartSize = 0 THEN NoPartIdx ELSE partIdxAtOffset(f, f.Size)

maxOfIntArr(arr) == IF arr = {} THEN 0 ELSE MaxOfSet(arr)

incompletePartsFromMap(partMap) == {p \in DOMAIN partMap : partMap[p] # PartSize}

RECURSIVE computePartMapLoop(_, _, _, _, _)
computePartMapLoop(f, startOffset, endOffset, testOffset, partMap) ==
    IF testOffset >= endOffset THEN partMap
    ELSE
        LET partIdx == partIdxAtOffset(f, testOffset)
            partStartOffset == testOffset
            partEndOffset == testOffset + PartSize
            partWriteStartOffset ==
                IF startOffset > partStartOffset /\ startOffset < partEndOffset
                THEN startOffset - partStartOffset ELSE 0
            partWriteEndOffset ==
                IF endOffset > partStartOffset /\ endOffset < partEndOffset
                THEN endOffset - partStartOffset ELSE PartSize
        IN  computePartMapLoop(f, startOffset, endOffset, testOffset + PartSize,
                MapPut(partMap, partIdx, partWriteEndOffset - partWriteStartOffset))

computePartMap(f, startOffset, size) ==
    computePartMapLoop(f, startOffset, startOffset + size,
                       startOffset - (startOffset % PartSize), <<>>)

-----------------------------------------------------------------------------
(* DataCacheEntry, FileCacheEntry, CacheEntry *)

makeDataCacheEntry(partIdx) ==
    [Dirty |-> FALSE, Flushing |-> FALSE, PartIdx |-> partIdx, Data |-> <<>>]

\* rtn.Data has length 0 when copy() runs
clonePart(dce) ==
    LET rtn == makeDataCacheEntry(dce.PartIdx)
    IN  [rtn EXCEPT !.Data = GoCopy(rtn.Data, dce.Data), !.Dirty = dce.Dirty]

\* writeToPart without the clone of a flushing buffer
writeToPartInPlace(dce, offset, data) ==
    LET leftInPart == PartSize - offset
        toWrite == IF Len(data) > leftInPart THEN leftInPart ELSE Len(data)
        d1 == IF Len(dce.Data) < offset + toWrite
              THEN Reslice(dce.Data, offset + toWrite) ELSE dce.Data
        d2 == [i \in 1..Len(d1) |->
                 IF i > offset /\ i <= offset + toWrite THEN data[i - offset] ELSE d1[i]]
    IN  [nw |-> toWrite, dce |-> [dce EXCEPT !.Data = d2, !.Dirty = TRUE], cloned |-> FALSE]

\* cloned: the returned entry is another object than dce
writeToPart(dce, offset, data) ==
    LET d0 == IF dce.Flushing THEN clonePart(dce) ELSE dce
        leftInPart == PartSize - offset
        toWrite == IF Len(data) > leftInPart THEN leftInPart ELSE Len(data)
        d1 == IF Len(d0.Data) < offset + toWrite
              THEN Reslice(d0.Data, offset + toWrite) ELSE d0.Data
        d2 == [i \in 1..Len(d1) |->
                 IF i > offset /\ i <= offset + toWrite THEN data[i - offset] ELSE d1[i]]
    IN  [nw |-> toWrite,
         dce |-> [d0 EXCEPT !.Data = d2, !.Dirty = TRUE],
         cloned |-> dce.Flushing]

NoEntry ==
    [present |-> FALSE, PinCount |-> 0, Deleted |-> FALSE, WriteIntentions |-> <<>>,
     FileEntry |-> 0, DataEntries |-> <<>>]

makeCacheEntry == [NoEntry EXCEPT !.present = TRUE]

\* the entry's DataEntries slice, grown to hold partIdx; a missing part made when create
ensurePart(de, heap, partIdx, create) ==
    LET grown == IF Len(de) <= partIdx
                 THEN de \o [i \in 1..(partIdx + 1 - Len(de)) |-> 0] ELSE de
        make == create /\ grown[partIdx + 1] = 0
        ptr == IF make THEN FreshPtr(heap) ELSE grown[partIdx + 1]
    IN  [DataEntries |-> [grown EXCEPT ![partIdx + 1] = ptr],
         heap |-> IF make THEN MapPut(heap, ptr, makeDataCacheEntry(partIdx)) ELSE heap,
         ptr |-> ptr]

RECURSIVE writeAtLoop(_, _, _, _, _)
writeAtLoop(f, de, heap, offset, data) ==
    IF Len(data) = 0 THEN [DataEntries |-> de, heap |-> heap]
    ELSE
        LET partIdx == partIdxAtOffset(f, offset)
            partOffset == offset % PartSize
            ep == ensurePart(de, heap, partIdx, TRUE)
            w == writeToPart(ep.heap[ep.ptr], partOffset, data)
            newPtr == IF w.cloned THEN FreshPtr(ep.heap) ELSE ep.ptr
        IN  writeAtLoop(f, [ep.DataEntries EXCEPT ![partIdx + 1] = newPtr],
                        MapPut(ep.heap, newPtr, w.dce),
                        offset + w.nw, Slice(data, w.nw, Len(data)))

writeAt(f, de, heap, offset, data, replace) ==
    writeAtLoop(f, IF replace THEN <<>> ELSE de, heap, offset, data)

\* the file the callback fn is handed: a copy when the entry is flushing
modifiedFile(e, heap) ==
    IF heap[e.FileEntry].Flushing THEN DeepCopy(heap[e.FileEntry].File)
    ELSE heap[e.FileEntry].File

\* file is what fn leaves of modifiedFile(e, heap)
modifyFileData(e, heap, file) ==
    LET old == heap[e.FileEntry]
        ptr == IF old.Flushing THEN FreshPtr(heap) ELSE e.FileEntry
        fileEntry == IF old.Flushing
                     THEN [Dirty |-> FALSE, Flushing |-> FALSE, File |-> DeepCopy(old.File)]
                     ELSE old
    IN  [FileEntry |-> ptr,
         heap |-> MapPut(heap, ptr, [fileEntry EXCEPT !.Dirty = TRUE, !.File = file])]

\* writeAtToCache that sets the size to the end of the write
writeAtToCacheEndSize(e, dh, fh, offset, data, replace, t) ==
    LET endWrite == offset + Len(data)
        w == writeAt(fh[e.FileEntry].File, e.DataEntries, dh, offset, data, replace)
        m == modifyFileData(e, fh,
                [modifiedFile(e, fh) EXCEPT !.Size = endWrite, !.ModTs = t])
    IN  [entry |-> [e EXCEPT !.DataEntries = w.DataEntries, !.FileEntry = m.FileEntry],
         dataHeap |-> w.heap,
         fileHeap |-> m.heap]

\* writeAtToCache with a size that only grows
writeAtToCacheGrowOnly(e, dh, fh, offset, data, replace, t) ==
    LET endWrite == offset + Len(data)
        w == writeAt(fh[e.FileEntry].File, e.DataEntries, dh, offset, data, replace)
        m == modifyFileData(e, fh,
                [modifiedFile(e, fh) EXCEPT
                    !.Size = IF endWrite > @ THEN endWrite ELSE @,
                    !.ModTs = t])
    IN  [entry |-> [e EXCEPT !.DataEntries = w.DataEntries, !.FileEntry = m.FileEntry],
         dataHeap |-> w.heap,
         fileHeap |-> m.heap]

writeAtToCache(e, dh, fh, offset, data, replace, t) ==
    LET endWrite == offset + Len(data)
        w == writeAt(fh[e.FileEntry].File, e.DataEntries, dh, offset, data, replace)
        m == modifyFileData(e, fh,
                [modifiedFile(e, fh) EXCEPT
                    !.Size = IF endWrite > @ \/ replace THEN endWrite ELSE @,
                    !.ModTs = t])
    IN  [entry |-> [e EXCEPT !.DataEntries = w.DataEntries, !.FileEntry = m.FileEntry],
         dataHeap |-> w.heap,
         fileHeap |-> m.heap]

\* WriteMeta's callback assigns to a key of a nil map, which panics; the
\* deletes of the merge leave a nil map as it is
updateMetaPanics(file, meta, merge) ==
    merge /\ file.Meta = NilMeta /\ \E k \in rangeMeta(meta) : meta[k] # Null

\* WriteMeta's callback: what it leaves of file (up to the panic, if it panics)
updateMeta(file, meta, merge) ==
    IF merge
    THEN IF file.Meta = NilMeta THEN file
         ELSE [file EXCEPT !.Meta =
                [k \in (DOMAIN file.Meta \cup rangeMeta(meta))
                          \ {x \in rangeMeta(meta) : meta[x] = Null} |->
                    IF k \in rangeMeta(meta) THEN meta[k] ELSE file.Meta[k]]]
    ELSE [file EXCEPT !.Meta = meta]

-----------------------------------------------------------------------------
(* BlockStore: the critical sections, as functions of the registry C *)

\* the condition withLockExists runs its callback under
withLockExists(C, k) == C[k].present /\ ~C[k].Deleted /\ C[k].FileEntry # 0

pinCacheEntry(C, k) ==
    LET entry == IF C[k].present THEN C[k] ELSE makeCacheEntry
    IN  [C EXCEPT ![k] = [entry EXCEPT !.PinCount = @ + 1]]

\* unpinCacheEntry that leaves the count
unpinForgotten(C, k) == C

unpinCacheEntry(C, k) ==
    IF ~C[k].present THEN C ELSE [C EXCEPT ![k].PinCount = @ - 1]

setWriteIntention(C, nextId, k, intention) ==
    IF ~C[k].present
    THEN [Cache |-> C, NextIntentionId |-> nextId, intentionId |-> 0]
    ELSE [Cache |-> [C EXCEPT ![k].WriteIntentions = MapPut(@, nextId, intention)],
          NextIntentionId |-> nextId + 1,
          intentionId |-> nextId]

clearWriteIntention(C, k, intentionId) ==
    IF ~C[k].present THEN C
    ELSE [C EXCEPT ![k].WriteIntentions = MapDel(@, intentionId)]

\* tryDeleteCacheEntry without the look at PinCount
tryDeleteUnpinned(C, k) ==
    IF ~C[k].present THEN C
    ELSE IF DOMAIN C[k].WriteIntentions # {} THEN C
    ELSE [C EXCEPT ![k] = NoEntry]

tryDeleteCacheEntry(C, k) ==
    IF ~C[k].present THEN C
    ELSE IF C[k].PinCount > 0 THEN C
    ELSE IF DOMAIN C[k].WriteIntentions # {} THEN C
    ELSE [C EXCEPT ![k] = NoEntry]

\* getFileFromCache taking an entry without a FileEntry for a cached nil
getFileFromCacheNilUnloaded(C, fh, k) ==
    IF ~C[k].present THEN [file |-> NoFile, isNil |-> TRUE, cached |-> FALSE]
    ELSE IF C[k].Deleted \/ C[k].FileEntry = 0
    THEN [file |-> NoFile, isNil |-> TRUE, cached |-> TRUE]
    ELSE [file |-> DeepCopy(fh[C[k].FileEntry].File), isNil |-> FALSE, cached |-> TRUE]

\* (file, cached); isNil: the file returned is nil
getFileFromCache(C, fh, k) ==
    IF ~C[k].present THEN [file |-> NoFile, isNil |-> TRUE, cached |-> FALSE]
    ELSE IF C[k].Deleted THEN [file |-> NoFile, isNil |-> TRUE, cached |-> TRUE]
    ELSE IF C[k].FileEntry = 0 THEN [file |-> NoFile, isNil |-> TRUE, cached |-> FALSE]
    ELSE [file |-> DeepCopy(fh[C[k].FileEntry].File), isNil |-> FALSE, cached |-> TRUE]

\* (fileEntry, dirtyData) and the heap with Flushing set on the dirty parts
getDirtyDataEntries(e, dh, fh) ==
    IF e.Deleted \/ e.FileEntry = 0
    THEN [fileEntry |-> 0, dirtyData |-> <<>>, heap |-> dh]
    ELSE
        LET dirtyData == SelectSeq(e.DataEntries, LAMBDA p : p # 0 /\ dh[p].Dirty)
        IN  IF ~fh[e.FileEntry].Dirty /\ Len(dirtyData) = 0
            THEN [fileEntry |-> 0, dirtyData |-> <<>>, heap |-> dh]
            ELSE [fileEntry |-> e.FileEntry,
                  dirtyData |-> dirtyData,
                  heap |-> [p \in DOMAIN dh |->
                              IF \E i \in 1..Len(dirtyData) : dirtyData[i] = p
                              THEN [dh[p] EXCEPT !.Flushing = TRUE] ELSE dh[p]]]

-----------------------------------------------------------------------------
(* The backing store *)

NoDbFile == [exists |-> FALSE, file |-> NoFile, parts |-> <<>>]

\* the order in which the backing store lists the files of the block
KeyOrder ==
    CHOOSE s \in [1..Cardinality(Keys) -> Keys] : {s[i] : i \in DOMAIN s} = Keys

\* getBlockFileNames: the names of the files the store holds for the block
dbGetBlockFileNames(D) == SelectSeq(KeyOrder, LAMBDA k : D[k].exists)

\* getFile: the record, or nil
dbGetBlockFile(D, k) == [file |-> D[k].file, isNil |-> ~D[k].exists]

\* getParts: the parts asked for that the store holds
dbGetFileParts(D, k, parts) == [p \in parts \cap DOMAIN D[k].parts |-> D[k].parts[p]]

\* insertFile: fails when the file is there
dbInsertFile(D, k, file) ==
    IF D[k].exists THEN [ok |-> FALSE, db |-> D]
    ELSE [ok |-> TRUE, db |-> [D EXCEPT ![k] = [exists |-> TRUE, file |-> file, parts |-> <<>>]]]

\* deleteFile: the record and its parts
dbDeleteFile(D, k) == [D EXCEPT ![k] = NoDbFile]

\* writeCacheEntry: one atomic write of the descriptor (when given) and the parts
\* file is the descriptor as the call read it from the FileCacheEntry it was given
dbWriteCacheEntry(D, k, file, dh, fileEntry, dirtyData) ==
    IF ~D[k].exists THEN [ok |-> FALSE, db |-> D]
    ELSE
        LET written == {dh[dirtyData[i]].PartIdx : i \in 1..Len(dirtyData)}
            dataOf(p) == dh[CHOOSE q \in {dirtyData[i] : i \in 1..Len(dirtyData)} :
                                dh[q].PartIdx = p].Data
        IN  [ok |-> TRUE,
             db |-> [D EXCEPT
                ![k].file = IF fileEntry # 0 THEN file ELSE @,
                ![k].parts = [p \in DOMAIN @ \cup written |->
                                 IF p \in written THEN dataOf(p) ELSE @[p]]]]

-----------------------------------------------------------------------------
(* What a reader assembles *)

\* ReadAt's combining loop over entries: partIdx -> Data
RECURSIVE assembleLoop(_, _, _, _, _)
assembleLoop(f, entries, curReadOffset, amtLeftToRead, rtn) ==
    IF amtLeftToRead <= 0 THEN rtn
    ELSE
        LET partIdx == partIdxAtOffset(f, curReadOffset)
            partData == IF partIdx \in DOMAIN entries
                        THEN Reslice(entries[partIdx], PartSize)
                        ELSE Zeros(PartSize)
            partOffset == curReadOffset % PartSize
            amtToRead == Min(PartSize - partOffset, amtLeftToRead)
        IN  assembleLoop(f, entries, curReadOffset + amtToRead, amtLeftToRead - amtToRead,
                         rtn \o Slice(partData, partOffset, partOffset + amtToRead))

\* ReadAt's partsNeeded
partsNeeded(f, offset, size) ==
    LET lastPartOffset == (offset + size) % PartSize
        endOffsetOfLastPart == offset + size - lastPartOffset + PartSize
    IN  {partIdxAtOffset(f, i) :
            i \in {j \in offset..(endOffsetOfLastPart - 1) : (j - offset) % PartSize = 0}}

-----------------------------------------------------------------------------
(* Garbage collection: an object lives while the registry, the flusher or a
   reader points to it *)

SeqRange(s) == {s[i] : i \in 1..Len(s)}

LiveData(C, client, flusher) ==
    (UNION {SeqRange(C[k].DataEntries) : k \in Keys}
       \cup SeqRange(flusher.dirtyData) \cup SeqRange(flusher.gone.DataEntries)
       \cup UNION {{client[c].de[p].ptr : p \in DOMAIN client[c].de} : c \in Clients})
    \ {0}

LiveFiles(C, flusher) ==
    ({C[k].FileEntry : k \in Keys} \cup {flusher.fileEntry, flusher.gone.FileEntry}) \ {0}

\* what the step leaves of the pointers the flusher holds. The *CacheEntry it
\* was handed stays the object it was when the step takes it out of s.Cache
\* (nobody else holds it then). The FileCacheEntry given to dbWriteCacheEntry
\* is read by that call with no lock, while writers change it in place: seen
\* collects what it held since getDirtyDataEntries returned it
flusherHolds(C, fh, flusher) ==
    IF flusher.ent = "live" /\ ~C[flusher.key].present
    THEN [flusher EXCEPT !.ent = "gone", !.gone = Cache[flusher.key]]
    ELSE IF flusher.pc = "write" /\ flusher.fileEntry # 0
    THEN [flusher EXCEPT !.seen = @ \cup {fh[flusher.fileEntry].File}]
    ELSE flusher

Commit(C, dh, fh, client, flusher) ==
    /\ Cache' = C
    /\ cl' = client
    /\ fl' = flusherHolds(C, fh, flusher)
    /\ dataHeap' = [p \in LiveData(C, client, flusherHolds(C, fh, flusher)) |-> dh[p]]
    /\ fileHeap' = [p \in LiveFiles(C, flusherHolds(C, fh, flusher)) |-> fh[p]]

-----------------------------------------------------------------------------
(* What the cache and the backing store hold for a key *)

\* entry.FileEntry != nil: the entry of the key holds a FileBuffer
HasFileEntry(k) == Cache[k].present /\ Cache[k].FileEntry # 0

\* Stat with a store that answers: the file of getFileFromCache when cached
\* (nil for an entry marked deleted), the store's record otherwise
Stat(C, fh, D, k) ==
    LET r == getFileFromCache(C, fh, k)
    IN  IF r.cached THEN [file |-> r.file, isNil |-> r.isNil] ELSE dbGetBlockFile(D, k)

\* the file Stat returns now, NoFile standing for nil
LogicalFile(k) ==
    LET r == Stat(Cache, fileHeap, db, k)
    IN  IF r.isNil THEN NoFile ELSE r.file

\* the parts of the store with the parts of the cache laid over them
LogicalParts(k) ==
    LET de == Cache[k].DataEntries
        cached == {p \in 0..(Len(de) - 1) : de[p + 1] # 0}
    IN  [p \in cached \cup DOMAIN db[k].parts |->
            IF p \in cached THEN dataHeap[de[p + 1]].Data ELSE db[k].parts[p]]

-----------------------------------------------------------------------------
(* Clients: one goroutine each, one operation at a time *)

DefaultKey == CHOOSE k \in Keys : TRUE

NoGhost == [cached |-> FALSE, inDb |-> FALSE, file |-> NoFile, parts |-> <<>>]

IdleClient ==
    [pc |-> "idle", op |-> "", key |-> DefaultKey,
     argOff |-> 0, argData |-> <<>>, argN |-> 0,
     off |-> 0, data |-> <<>>, n |-> 0, meta |-> EmptyMeta, merge |-> FALSE,
     opts |-> NoOpts, file |-> NoFile, intentionId |-> 0, deferClear |-> FALSE,
     partMap |-> <<>>, parts |-> {}, dbParts |-> <<>>, de |-> <<>>,
     files |-> <<>>, idx |-> 0,
     cur |-> 0, left |-> 0, buf |-> <<>>, names |-> <<>>,
     err |-> "", roff |-> 0, rdata |-> <<>>,
     g |-> NoGhost, nops |-> 0, hist |-> <<>>]

\* the state of the key as the operation starts (kept only with a history):
\* what getFileFromCache, the store and Stat answer, and the parts held
GhostAt(k, h) ==
    IF h = 0 THEN NoGhost
    ELSE [cached |-> getFileFromCache(Cache, fileHeap, k).cached,
          inDb |-> ~dbGetBlockFile(db, k).isNil,
          file |-> LogicalFile(k), parts |-> LogicalParts(k)]

\* nops: the operations the client may still start
CanStart(c) == ~panicked /\ cl[c].pc = "idle" /\ cl[c].nops > 0

Start(c, op, k, h) ==
    [IdleClient EXCEPT !.pc = "run", !.op = op, !.key = k, !.g = GhostAt(k, h),
                       !.nops = cl[c].nops - 1, !.hist = cl[c].hist]

\* the operation returns: its record joins the last h returned operations
Finish(rec, h, err, roff, rdata) ==
    LET done == [op |-> rec.op, off |-> rec.argOff, data |-> rec.argData, n |-> rec.argN,
                 err |-> err, roff |-> roff, rdata |-> rdata, g |-> rec.g]
        all == <<done>> \o rec.hist
    IN  [IdleClient EXCEPT !.nops = rec.nops,
                           !.hist = SubSeq(all, 1, Min(h, Len(all)))]

\* the operation is over but for its deferred calls
Exit(rec, err) ==
    [rec EXCEPT !.err = err, !.pc = IF rec.deferClear THEN "clearint" ELSE "unpin",
                !.dbParts = <<>>, !.de = <<>>, !.parts = {}]

Panic(rec) == Exit(rec, "panic")

\* a client starting an operation ends the flusher's quiet pass
Disturbed == [fl EXCEPT !.quiet = FALSE]

\* WriteAt between loadFileInfo and setWriteIntention
writeAtChecks(rec) ==
    LET file == rec.file
        startCirFileOffset == file.Size - file.Opts.MaxSize
        amtBeforeStart ==
            IF file.Opts.Circular /\ rec.off < startCirFileOffset
            THEN startCirFileOffset - rec.off ELSE 0
        offset == rec.off + amtBeforeStart
        data == Slice(rec.data, amtBeforeStart, Len(rec.data))
    IN  IF rec.off < 0 THEN Exit(rec, "InvalidArgument")
        ELSE IF rec.off > file.Size THEN Exit(rec, "InvalidArgument")
        ELSE IF file.Opts.Circular /\ rec.off + Len(rec.data) < startCirFileOffset
        THEN Exit(rec, "")
        ELSE [rec EXCEPT !.off = offset, !.data = data,
                         !.partMap = computePartMap(file, offset, Len(data)),
                         !.pc = "setint"]

\* where an operation goes once loadFileInfo has returned file
AfterLoadFileInfo(rec, file) ==
    LET r == [rec EXCEPT !.file = file]
    IN  CASE rec.op = "WriteMeta" -> [r EXCEPT !.pc = "wm_mod"]
          [] rec.op = "AppendData" -> [r EXCEPT !.pc = "llb_idx"]
          [] rec.op = "WriteFile" -> [r EXCEPT !.pc = "wf_write"]
          [] OTHER -> writeAtChecks(r)

(* the first call of each write: pinCacheEntry *)

WriteMeta(c, k, meta, merge, h) ==
    /\ CanStart(c)
    /\ Commit(pinCacheEntry(Cache, k), dataHeap, fileHeap,
              [cl EXCEPT ![c] = [Start(c, "WriteMeta", k, h) EXCEPT
                                    !.meta = meta, !.merge = merge, !.pc = "lfi_cache"]],
              Disturbed)
    /\ UNCHANGED <<NextIntentionId, db, now, panicked>>

AppendData(c, k, data, h) ==
    /\ CanStart(c)
    /\ Commit(pinCacheEntry(Cache, k), dataHeap, fileHeap,
              [cl EXCEPT ![c] = [Start(c, "AppendData", k, h) EXCEPT
                                    !.argData = data, !.data = data, !.pc = "setint"]],
              Disturbed)
    /\ UNCHANGED <<NextIntentionId, db, now, panicked>>

WriteFile(c, k, data, h) ==
    /\ CanStart(c)
    /\ Commit(pinCacheEntry(Cache, k), dataHeap, fileHeap,
              [cl EXCEPT ![c] = [Start(c, "WriteFile", k, h) EXCEPT
                                    !.argData = data, !.data = data, !.pc = "setint"]],
              Disturbed)
    /\ UNCHANGED <<NextIntentionId, db, now, panicked>>

WriteAt(c, k, offset, data, h) ==
    /\ CanStart(c)
    /\ Commit(pinCacheEntry(Cache, k), dataHeap, fileHeap,
              [cl EXCEPT ![c] = [Start(c, "WriteAt", k, h) EXCEPT
                                    !.argOff = offset, !.off = offset,
                                    !.argData = data, !.data = data, !.pc = "lfi_cache"]],
              Disturbed)
    /\ UNCHANGED <<NextIntentionId, db, now, panicked>>

(* setWriteIntention *)
SetIntention(c) ==
    LET rec == cl[c]
        intention ==
            [Parts |-> IF rec.op = "WriteAt" THEN rec.partMap ELSE <<>>,
             Append |-> rec.op = "AppendData",
             Replace |-> rec.op = "WriteFile"]
        r == setWriteIntention(Cache, NextIntentionId, rec.key, intention)
    IN  /\ ~panicked /\ rec.pc = "setint"
        /\ NextIntentionId' = r.NextIntentionId
        /\ Commit(r.Cache, dataHeap, fileHeap,
                  [cl EXCEPT ![c] = [rec EXCEPT
                        !.intentionId = r.intentionId, !.deferClear = TRUE,
                        !.parts = IF rec.op = "WriteAt"
                                  THEN incompletePartsFromMap(rec.partMap) ELSE {},
                        !.pc = IF rec.op = "WriteAt" THEN "ldp_db" ELSE "lfi_cache"]],
                  fl)
        /\ UNCHANGED <<db, now, panicked>>

(* loadFileInfo: getFileFromCache *)
LoadFileInfoCache(c) ==
    LET rec == cl[c]
        r == getFileFromCache(Cache, fileHeap, rec.key)
    IN  /\ ~panicked /\ rec.pc = "lfi_cache"
        /\ cl' = [cl EXCEPT ![c] =
                    IF r.cached
                    THEN IF r.isNil THEN Exit(rec, "NotFound")
                         ELSE AfterLoadFileInfo(rec, r.file)
                    ELSE [rec EXCEPT !.pc = "lfi_db"]]
        /\ UNCHANGED <<Cache, NextIntentionId, dataHeap, fileHeap, db, fl, now, panicked>>

(* loadFileInfo: dbGetBlockFile *)
LoadFileInfoDb(c) ==
    LET rec == cl[c]
        r == dbGetBlockFile(db, rec.key)
    IN  /\ ~panicked /\ rec.pc = "lfi_db"
        /\ \E fail \in BOOLEAN :
             cl' = [cl EXCEPT ![c] =
                      IF fail THEN Exit(rec, "BackingStore")
                      ELSE IF r.isNil THEN Exit(rec, "NotFound")
                      ELSE [rec EXCEPT !.file = r.file, !.pc = "lfi_install"]]
        /\ UNCHANGED <<Cache, NextIntentionId, dataHeap, fileHeap, db, fl, now, panicked>>

\* loadFileInfo's critical section without the test for an installed FileEntry
loadFileInfoLockedReplace(C, fh, k, dbFile) ==
    LET entry == IF C[k].present THEN C[k] ELSE makeCacheEntry
        ptr == FreshPtr(fh)
    IN  IF entry.Deleted
        THEN [Cache |-> [C EXCEPT ![k] = entry], heap |-> fh, file |-> NoFile,
              err |-> "FileDeleted"]
        ELSE [Cache |-> [C EXCEPT ![k] = [entry EXCEPT !.FileEntry = ptr]],
              heap |-> MapPut(fh, ptr, [Dirty |-> FALSE, Flushing |-> FALSE,
                                        File |-> DeepCopy(dbFile)]),
              file |-> dbFile, err |-> ""]

\* loadFileInfo's critical section: (the registry, the file heap, the file, the error)
loadFileInfoLocked(C, fh, k, dbFile) ==
    LET entry == IF C[k].present THEN C[k] ELSE makeCacheEntry
        ptr == FreshPtr(fh)
    IN  IF entry.Deleted
        THEN [Cache |-> [C EXCEPT ![k] = entry], heap |-> fh, file |-> NoFile,
              err |-> "FileDeleted"]
        ELSE IF entry.FileEntry # 0
        THEN [Cache |-> [C EXCEPT ![k] = entry], heap |-> fh,
              file |-> DeepCopy(fh[entry.FileEntry].File), err |-> ""]
        ELSE [Cache |-> [C EXCEPT ![k] = [entry EXCEPT !.FileEntry = ptr]],
              heap |-> MapPut(fh, ptr, [Dirty |-> FALSE, Flushing |-> FALSE,
                                        File |-> DeepCopy(dbFile)]),
              file |-> dbFile, err |-> ""]

LoadFileInfoInstall(c) ==
    LET rec == cl[c]
        r == loadFileInfoLocked(Cache, fileHeap, rec.key, rec.file)
    IN  /\ ~panicked /\ rec.pc = "lfi_install"
        /\ Commit(r.Cache, dataHeap, r.heap,
                  [cl EXCEPT ![c] = IF r.err # "" THEN Exit(rec, r.err)
                                    ELSE AfterLoadFileInfo(rec, r.file)],
                  fl)
        /\ UNCHANGED <<NextIntentionId, db, now, panicked>>

(* loadLastDataBlock: the last incomplete part's index *)
LoadLastDataBlock(c) ==
    LET rec == cl[c]
        partIdx == getLastIncompletePartNum(fileHeap[Cache[rec.key].FileEntry].File)
    IN  /\ ~panicked /\ rec.pc = "llb_idx"
        /\ cl' = [cl EXCEPT ![c] =
                    IF ~withLockExists(Cache, rec.key) THEN Exit(rec, "NotFound")
                    ELSE IF partIdx = NoPartIdx THEN [rec EXCEPT !.pc = "ap_write"]
                    ELSE [rec EXCEPT !.parts = {partIdx}, !.pc = "ldp_db"]]
        /\ UNCHANGED <<Cache, NextIntentionId, dataHeap, fileHeap, db, fl, now, panicked>>

(* loadDataParts: dbGetFileParts *)
LoadDataPartsDb(c) ==
    LET rec == cl[c]
    IN  /\ ~panicked /\ rec.pc = "ldp_db"
        /\ \E fail \in BOOLEAN :
             cl' = [cl EXCEPT ![c] =
                      IF fail THEN Exit(rec, "BackingStore")
                      ELSE [rec EXCEPT !.dbParts = dbGetFileParts(db, rec.key, rec.parts),
                                       !.pc = "ldp_install"]]
        /\ UNCHANGED <<Cache, NextIntentionId, dataHeap, fileHeap, db, fl, now, panicked>>

\* loadDataParts' critical section: a fetched part goes into an empty slot only
RECURSIVE installParts(_, _, _, _)
installParts(de, heap, partDataMap, todo) ==
    IF todo = {} THEN [DataEntries |-> de, heap |-> heap]
    ELSE
        LET partIdx == CHOOSE p \in todo : \A q \in todo : p <= q
            ptr == FreshPtr(heap)
        IN  IF de[partIdx + 1] # 0
            THEN installParts(de, heap, partDataMap, todo \ {partIdx})
            ELSE installParts([de EXCEPT ![partIdx + 1] = ptr],
                              MapPut(heap, ptr,
                                  [Dirty |-> FALSE, Flushing |-> FALSE, PartIdx |-> partIdx,
                                   Data |-> partDataMap[partIdx]]),
                              partDataMap, todo \ {partIdx})

\* loadDataParts' critical section putting every fetched part into its slot
loadDataPartsLockedOverwrite(e, dh, parts, partDataMap) ==
    LET ep == ensurePart(e.DataEntries, dh, maxOfIntArr(parts), FALSE)
        cleared == [i \in 1..Len(ep.DataEntries) |->
                      IF (i - 1) \in DOMAIN partDataMap THEN 0 ELSE ep.DataEntries[i]]
    IN  installParts(cleared, dh, partDataMap, DOMAIN partDataMap)

loadDataPartsLocked(e, dh, parts, partDataMap) ==
    LET ep == ensurePart(e.DataEntries, dh, maxOfIntArr(parts), FALSE)
    IN  installParts(ep.DataEntries, dh, partDataMap, DOMAIN partDataMap)

LoadDataPartsInstall(c) ==
    LET rec == cl[c]
        k == rec.key
        r == loadDataPartsLocked(Cache[k], dataHeap, rec.parts, rec.dbParts)
        next == [rec EXCEPT !.dbParts = <<>>, !.parts = {},
                            !.pc = IF rec.op = "AppendData" THEN "ap_write" ELSE "wa_write"]
    IN  /\ ~panicked /\ rec.pc = "ldp_install"
        /\ IF ~withLockExists(Cache, k)
           THEN Commit(Cache, dataHeap, fileHeap,
                       [cl EXCEPT ![c] = Exit(rec, "NotFound")], fl)
           ELSE Commit([Cache EXCEPT ![k].DataEntries = r.DataEntries], r.heap, fileHeap,
                       [cl EXCEPT ![c] = next], fl)
        /\ UNCHANGED <<NextIntentionId, db, now, panicked>>

(* the write itself, under withLockExists: appendDataToCache, WriteFile's and
   WriteAt's writeAtToCache *)
WriteToCache(c) ==
    LET rec == cl[c]
        k == rec.key
        e == Cache[k]
        offset == CASE rec.pc = "ap_write" -> fileHeap[e.FileEntry].File.Size
                    [] rec.pc = "wf_write" -> 0
                    [] OTHER -> rec.off
        r == writeAtToCache(e, dataHeap, fileHeap, offset, rec.data,
                            rec.pc = "wf_write", now)
    IN  /\ ~panicked /\ rec.pc \in {"ap_write", "wf_write", "wa_write"}
        /\ IF ~withLockExists(Cache, k)
           THEN Commit(Cache, dataHeap, fileHeap,
                       [cl EXCEPT ![c] = Exit(rec, "NotFound")], fl)
           ELSE Commit([Cache EXCEPT ![k] = r.entry], r.dataHeap, r.fileHeap,
                       [cl EXCEPT ![c] = Exit(rec, "")], fl)
        /\ UNCHANGED <<NextIntentionId, db, now, panicked>>

(* WriteMeta's modifyFileData, under withLockExists *)
WriteMetaToCache(c) ==
    LET rec == cl[c]
        k == rec.key
        file == modifiedFile(Cache[k], fileHeap)
        m == modifyFileData(Cache[k], fileHeap, updateMeta(file, rec.meta, rec.merge))
        \* the callback runs a delete or an assignment on the map file.Meta, which
        \* the flusher's dbWriteCacheEntry may be reading
        raced == /\ rec.merge /\ file.Meta # NilMeta /\ rangeMeta(rec.meta) # {}
                 /\ fl.pc = "write" /\ fl.fileEntry # 0 /\ fl.fileEntry = m.FileEntry
    IN  /\ ~panicked /\ rec.pc = "wm_mod"
        /\ IF ~withLockExists(Cache, k)
           THEN Commit(Cache, dataHeap, fileHeap,
                       [cl EXCEPT ![c] = Exit(rec, "NotFound")], fl)
           ELSE Commit([Cache EXCEPT ![k].FileEntry = m.FileEntry], dataHeap, m.heap,
                       [cl EXCEPT ![c] =
                           IF updateMetaPanics(file, rec.meta, rec.merge)
                           THEN Panic(rec) ELSE Exit(rec, "")],
                       [fl EXCEPT !.mapWritten = @ \/ raced])
        /\ UNCHANGED <<NextIntentionId, db, now, panicked>>

(* the deferred clearWriteIntention *)
ClearIntention(c) ==
    LET rec == cl[c]
    IN  /\ ~panicked /\ rec.pc = "clearint"
        /\ Commit(clearWriteIntention(Cache, rec.key, rec.intentionId), dataHeap, fileHeap,
                  [cl EXCEPT ![c] = [rec EXCEPT !.pc = "unpin", !.deferClear = FALSE]], fl)
        /\ UNCHANGED <<NextIntentionId, db, now, panicked>>

(* the deferred unpinCacheEntry; the operation returns, or the panic goes on *)
Unpin(c, h) ==
    LET rec == cl[c]
    IN  /\ ~panicked /\ rec.pc = "unpin"
        /\ Commit(unpinCacheEntry(Cache, rec.key), dataHeap, fileHeap,
                  [cl EXCEPT ![c] = Finish(rec, h, rec.err, rec.roff, rec.rdata)], fl)
        /\ panicked' = (rec.err = "panic")
        /\ UNCHANGED <<NextIntentionId, db, now>>

-----------------------------------------------------------------------------
(* Reads *)

\* ReadAt once Stat has returned file: the circular adjustment and partsNeeded
AfterStat(rec, file) ==
    LET offset == IF file.Opts.Circular /\ rec.n > file.Opts.MaxSize
                  THEN rec.off + (rec.n - file.Opts.MaxSize) ELSE rec.off
    IN  [rec EXCEPT !.file = file, !.off = offset,
                    !.parts = partsNeeded(file, offset, rec.n), !.pc = "rd_db"]

(* ReadAt: pinCacheEntry *)
ReadAt(c, k, offset, size, h) ==
    /\ CanStart(c)
    /\ Commit(pinCacheEntry(Cache, k), dataHeap, fileHeap,
              [cl EXCEPT ![c] = [Start(c, "ReadAt", k, h) EXCEPT
                                    !.argOff = offset, !.off = offset,
                                    !.argN = size, !.n = size, !.pc = "stat_cache"]],
              Disturbed)
    /\ UNCHANGED <<NextIntentionId, db, now, panicked>>

(* ReadFile: Stat's getFileFromCache, then the nil check *)
ReadFile(c, k, h) ==
    LET rec == Start(c, "ReadFile", k, h)
        r == getFileFromCache(Cache, fileHeap, k)
    IN  /\ CanStart(c)
        /\ cl' = [cl EXCEPT ![c] =
                    IF r.cached
                    THEN IF r.isNil THEN Finish(rec, h, "NotFound", 0, <<>>)
                         ELSE [rec EXCEPT !.n = r.file.Size, !.pc = "pin"]
                    ELSE [rec EXCEPT !.pc = "rf_db"]]
        /\ fl' = Disturbed
        /\ UNCHANGED <<Cache, NextIntentionId, dataHeap, fileHeap, db, now, panicked>>

(* ReadFile: Stat's dbGetBlockFile *)
ReadFileDb(c, h) ==
    LET rec == cl[c]
        r == dbGetBlockFile(db, rec.key)
    IN  /\ ~panicked /\ rec.pc = "rf_db"
        /\ \E fail \in BOOLEAN :
             cl' = [cl EXCEPT ![c] =
                      IF fail THEN Finish(rec, h, "BackingStore", 0, <<>>)
                      ELSE IF r.isNil THEN Finish(rec, h, "NotFound", 0, <<>>)
                      ELSE [rec EXCEPT !.n = r.file.Size, !.pc = "pin"]]
        /\ UNCHANGED <<Cache, NextIntentionId, dataHeap, fileHeap, db, fl, now, panicked>>

(* ReadFile's ReadAt(0, file.Size): pinCacheEntry *)
ReadFilePin(c) ==
    LET rec == cl[c]
    IN  /\ ~panicked /\ rec.pc = "pin"
        /\ Commit(pinCacheEntry(Cache, rec.key), dataHeap, fileHeap,
                  [cl EXCEPT ![c] = [rec EXCEPT !.pc = "stat_cache"]], fl)
        /\ UNCHANGED <<NextIntentionId, db, now, panicked>>

(* ReadAt: Stat's getFileFromCache; a nil file is dereferenced *)
StatCache(c) ==
    LET rec == cl[c]
        r == getFileFromCache(Cache, fileHeap, rec.key)
    IN  /\ ~panicked /\ rec.pc = "stat_cache"
        /\ cl' = [cl EXCEPT ![c] =
                    IF r.cached
                    THEN IF r.isNil THEN Panic(rec) ELSE AfterStat(rec, r.file)
                    ELSE [rec EXCEPT !.pc = "stat_db"]]
        /\ UNCHANGED <<Cache, NextIntentionId, dataHeap, fileHeap, db, fl, now, panicked>>

(* ReadAt: Stat's dbGetBlockFile *)
StatDb(c) ==
    LET rec == cl[c]
        r == dbGetBlockFile(db, rec.key)
    IN  /\ ~panicked /\ rec.pc = "stat_db"
        /\ \E fail \in BOOLEAN :
             cl' = [cl EXCEPT ![c] =
                      IF fail THEN Exit(rec, "BackingStore")
                      ELSE IF r.isNil THEN Panic(rec)
                      ELSE AfterStat(rec, r.file)]
        /\ UNCHANGED <<Cache, NextIntentionId, dataHeap, fileHeap, db, fl, now, panicked>>

(* ReadAt: dbGetFileParts *)
ReadPartsDb(c) ==
    LET rec == cl[c]
        got == dbGetFileParts(db, rec.key, rec.parts)
    IN  /\ ~panicked /\ rec.pc = "rd_db"
        /\ \E fail \in BOOLEAN :
             cl' = [cl EXCEPT ![c] =
                      IF fail THEN Exit(rec, "BackingStore")
                      ELSE [rec EXCEPT
                              !.de = [p \in DOMAIN got |-> [ptr |-> 0, Data |-> got[p]]],
                              !.pc = "rd_overlay"]]
        /\ UNCHANGED <<Cache, NextIntentionId, dataHeap, fileHeap, db, fl, now, panicked>>

\* ReadAt's critical section: the size limit and the cached parts laid over dataEntries
readAtLocked(e, fh, rec) ==
    LET size == IF rec.off + rec.n > fh[e.FileEntry].File.Size
                THEN fh[e.FileEntry].File.Size - rec.off ELSE rec.n
        hit == {p \in rec.parts : ~(Len(e.DataEntries) <= p) /\ e.DataEntries[p + 1] # 0}
    IN  [rec EXCEPT !.n = size,
                    !.de = [p \in DOMAIN rec.de \cup hit |->
                              IF p \in hit THEN [ptr |-> e.DataEntries[p + 1], Data |-> <<>>]
                              ELSE rec.de[p]],
                    !.cur = rec.off, !.left = size,
                    !.pc = "rd_asm"]

ReadOverlay(c) ==
    LET rec == cl[c]
    IN  /\ ~panicked /\ rec.pc = "rd_overlay"
        /\ Commit(Cache, dataHeap, fileHeap,
                  [cl EXCEPT ![c] =
                      IF ~withLockExists(Cache, rec.key) THEN Exit(rec, "NotFound")
                      ELSE readAtLocked(Cache[rec.key], fileHeap, rec)],
                  fl)
        /\ UNCHANGED <<NextIntentionId, db, now, panicked>>

\* the combine loop has amt more bytes: the next round, or the return
readAdvance(rec, bytes, amt) ==
    LET r == [rec EXCEPT !.rdata = @ \o bytes, !.cur = @ + amt, !.left = @ - amt,
                         !.buf = <<>>]
    IN  IF r.left > 0 THEN r
        ELSE [Exit(r, "") EXCEPT !.roff = rec.off, !.cur = 0, !.left = 0]

(* ReadAt: the parts are combined, outside the lock. A part the store gave is
   the reader's own and is taken whole. A part of the cache is read through
   the pointer while writers copy into it under the lock: every byte is read
   by itself, in any order, so that a round of the loop can return any
   mixture of the bytes the part held while the round was running *)
ReadAssemble(c) ==
    LET rec == cl[c]
        partIdx == partIdxAtOffset(rec.file, rec.cur)
        partOffset == rec.cur % PartSize
        amtToRead == Min(PartSize - partOffset, rec.left)
        want == partOffset..(partOffset + amtToRead - 1)
        held == partIdx \in DOMAIN rec.de /\ rec.de[partIdx].ptr # 0
        partData == IF partIdx \notin DOMAIN rec.de THEN Zeros(PartSize)
                    ELSE IF held THEN Reslice(dataHeap[rec.de[partIdx].ptr].Data, PartSize)
                    ELSE Reslice(rec.de[partIdx].Data, PartSize)
        step(i) ==
            IF rec.left <= 0 THEN readAdvance(rec, <<>>, 0)
            ELSE IF ~held
            THEN readAdvance(rec, Slice(partData, partOffset, partOffset + amtToRead),
                             amtToRead)
            ELSE LET buf == [j \in DOMAIN rec.buf \cup {i} |->
                               IF j = i THEN partData[i + 1] ELSE rec.buf[j]]
                 IN  IF DOMAIN buf # want THEN [rec EXCEPT !.buf = buf]
                     ELSE readAdvance(rec, [j \in 1..amtToRead |-> buf[partOffset + j - 1]],
                                      amtToRead)
    IN  /\ ~panicked /\ rec.pc = "rd_asm"
        /\ \E i \in (IF rec.left > 0 /\ held THEN want \ DOMAIN rec.buf ELSE {0}) :
             Commit(Cache, dataHeap, fileHeap, [cl EXCEPT ![c] = step(i)], fl)
        /\ UNCHANGED <<NextIntentionId, db, now, panicked>>

-----------------------------------------------------------------------------
(* MakeFile, DeleteFile, FlushCache *)

\* MakeFile's checks of its options: the error and the options as rounded
makeFileOpts(opts) ==
    IF opts.MaxSize < 0 THEN [err |-> "InvalidArgument", opts |-> opts]
    ELSE IF opts.Circular /\ opts.MaxSize <= 0 THEN [err |-> "InvalidArgument", opts |-> opts]
    ELSE IF opts.Circular /\ opts.IJson THEN [err |-> "InvalidArgument", opts |-> opts]
    ELSE [err |-> "",
          opts |-> IF opts.Circular /\ opts.MaxSize % PartSize # 0
                   THEN [opts EXCEPT !.MaxSize = (opts.MaxSize \div PartSize + 1) * PartSize]
                   ELSE opts]

\* makeFileLocked that removes a deleted entry whoever holds it
makeFileLockedNoBusy(C, k) ==
    IF ~C[k].present THEN [Cache |-> C, err |-> ""]
    ELSE IF ~C[k].Deleted THEN [Cache |-> C, err |-> "FileExists"]
    ELSE [Cache |-> [C EXCEPT ![k] = NoEntry], err |-> ""]

\* MakeFile's critical section
makeFileLocked(C, k) ==
    IF ~C[k].present THEN [Cache |-> C, err |-> ""]
    ELSE IF ~C[k].Deleted THEN [Cache |-> C, err |-> "FileExists"]
    ELSE IF C[k].PinCount = 0 /\ DOMAIN C[k].WriteIntentions = {}
    THEN [Cache |-> [C EXCEPT ![k] = NoEntry], err |-> ""]
    ELSE [Cache |-> C, err |-> "FileBusy"]

MakeFile(c, k, meta, opts, h) ==
    LET rec == [Start(c, "MakeFile", k, h) EXCEPT !.meta = meta]
        o == makeFileOpts(opts)
        r == makeFileLocked(Cache, k)
    IN  /\ CanStart(c)
        /\ IF o.err # ""
           THEN Commit(Cache, dataHeap, fileHeap,
                       [cl EXCEPT ![c] = Finish(rec, h, o.err, 0, <<>>)], Disturbed)
           ELSE Commit(r.Cache, dataHeap, fileHeap,
                       [cl EXCEPT ![c] = IF r.err # "" THEN Finish(rec, h, r.err, 0, <<>>)
                                         ELSE [rec EXCEPT !.opts = o.opts, !.pc = "mk_db"]],
                       Disturbed)
        /\ UNCHANGED <<NextIntentionId, db, now, panicked>>

(* MakeFile: dbInsertFile *)
MakeFileDb(c, h) ==
    LET rec == cl[c]
        file == [Size |-> 0, ModTs |-> now, CreatedTs |-> now, Meta |-> rec.meta,
                 Opts |-> rec.opts]
        r == dbInsertFile(db, rec.key, file)
    IN  /\ ~panicked /\ rec.pc = "mk_db"
        /\ \E fail \in BOOLEAN :
             IF fail \/ ~r.ok
             THEN /\ cl' = [cl EXCEPT ![c] = Finish(rec, h, "BackingStore", 0, <<>>)]
                  /\ db' = db
             ELSE /\ cl' = [cl EXCEPT ![c] = Finish(rec, h, "", 0, <<>>)]
                  /\ db' = r.db
        /\ UNCHANGED <<Cache, NextIntentionId, dataHeap, fileHeap, fl, now, panicked>>

(* DeleteFile: dbDeleteFile *)
DeleteFile(c, k, h) ==
    LET rec == Start(c, "DeleteFile", k, h)
    IN  /\ CanStart(c)
        /\ \E fail \in BOOLEAN :
             IF fail
             THEN /\ cl' = [cl EXCEPT ![c] = Finish(rec, h, "BackingStore", 0, <<>>)]
                  /\ db' = db
             ELSE /\ cl' = [cl EXCEPT ![c] = [rec EXCEPT !.pc = "del_lock"]]
                  /\ db' = dbDeleteFile(db, k)
        /\ fl' = Disturbed
        /\ UNCHANGED <<Cache, NextIntentionId, dataHeap, fileHeap, now, panicked>>

\* DeleteFile's critical section
deleteFileLocked(C, k) ==
    IF ~C[k].present THEN C
    ELSE IF C[k].PinCount > 0 \/ DOMAIN C[k].WriteIntentions # {}
    THEN [C EXCEPT ![k].Deleted = TRUE]
    ELSE [C EXCEPT ![k] = NoEntry]

DeleteFileCache(c, h) ==
    LET rec == cl[c]
    IN  /\ ~panicked /\ rec.pc = "del_lock"
        /\ Commit(deleteFileLocked(Cache, rec.key), dataHeap, fileHeap,
                  [cl EXCEPT ![c] = Finish(rec, h, "", 0, <<>>)], fl)
        /\ UNCHANGED <<NextIntentionId, db, now, panicked>>

(* DeleteBlock: dbGetBlockFileNames *)
DeleteBlock(c, h) ==
    LET rec == Start(c, "DeleteBlock", DefaultKey, h)
        fileNames == dbGetBlockFileNames(db)
    IN  /\ CanStart(c)
        /\ \E fail \in BOOLEAN :
             cl' = [cl EXCEPT ![c] =
                      IF fail THEN Finish(rec, h, "BackingStore", 0, <<>>)
                      ELSE IF Len(fileNames) = 0 THEN Finish(rec, h, "", 0, <<>>)
                      ELSE [rec EXCEPT !.names = fileNames, !.idx = 1, !.pc = "blk_db"]]
        /\ fl' = Disturbed
        /\ UNCHANGED <<Cache, NextIntentionId, dataHeap, fileHeap, db, now, panicked>>

\* DeleteBlock once DeleteFile(name) has returned, its error dropped: the next
\* name, or the return of nil
deleteBlockNext(rec, h) ==
    IF rec.idx = Len(rec.names) THEN Finish(rec, h, "", 0, <<>>)
    ELSE [rec EXCEPT !.idx = @ + 1, !.pc = "blk_db"]

(* DeleteBlock: the dbDeleteFile of its DeleteFile(name) *)
DeleteBlockDb(c, h) ==
    LET rec == cl[c]
    IN  /\ ~panicked /\ rec.pc = "blk_db"
        /\ \E fail \in BOOLEAN :
             IF fail
             THEN /\ cl' = [cl EXCEPT ![c] = deleteBlockNext(rec, h)]
                  /\ db' = db
             ELSE /\ cl' = [cl EXCEPT ![c] = [rec EXCEPT !.pc = "blk_lock"]]
                  /\ db' = dbDeleteFile(db, rec.names[rec.idx])
        /\ UNCHANGED <<Cache, NextIntentionId, dataHeap, fileHeap, fl, now, panicked>>

(* DeleteBlock: the critical section of its DeleteFile(name) *)
DeleteBlockCache(c, h) ==
    LET rec == cl[c]
    IN  /\ ~panicked /\ rec.pc = "blk_lock"
        /\ Commit(deleteFileLocked(Cache, rec.names[rec.idx]), dataHeap, fileHeap,
                  [cl EXCEPT ![c] = deleteBlockNext(rec, h)], fl)
        /\ UNCHANGED <<NextIntentionId, db, now, panicked>>

\* the scan of FlushCache: the keys of the entries with a dirty buffer
dirtyCacheKeys(C, dh, fh) ==
    {k \in Keys :
        /\ C[k].present
        /\ \/ C[k].FileEntry # 0 /\ fh[C[k].FileEntry].Dirty
           \/ \E i \in 1..Len(C[k].DataEntries) :
                 C[k].DataEntries[i] # 0 /\ dh[C[k].DataEntries[i]].Dirty}

\* FlushCache between Lock and Unlock, and what it does with the keys: nothing
flushCacheLocked(C, dh, fh, D) ==
    [keys |-> dirtyCacheKeys(C, dh, fh), dataHeap |-> dh, db |-> D, err |-> ""]

FlushCache(c, h) ==
    LET rec == Start(c, "FlushCache", DefaultKey, h)
        r == flushCacheLocked(Cache, dataHeap, fileHeap, db)
    IN  /\ CanStart(c)
        /\ db' = r.db
        /\ Commit(Cache, r.dataHeap, fileHeap,
                  [cl EXCEPT ![c] = Finish(rec, h, r.err, 0, <<>>)], Disturbed)
        /\ UNCHANGED <<NextIntentionId, now, panicked>>

-----------------------------------------------------------------------------
(* The flusher: every pass takes the keys of the dirty entries, then runs
   flushEntry on each *)

IdleFlusher ==
    [pc |-> "idle", keys |-> {}, key |-> DefaultKey, ent |-> "none", gone |-> NoEntry,
     fileEntry |-> 0, dirtyData |-> <<>>, seen |-> {}, mapWritten |-> FALSE, quiet |-> FALSE, res |-> ""]

AllIdle == \A c \in Clients : cl[c].pc = "idle"

FlusherScan ==
    LET keys == dirtyCacheKeys(Cache, dataHeap, fileHeap)
    IN  /\ ~panicked /\ fl.pc = "idle"
        /\ keys # {}
        /\ Commit(Cache, dataHeap, fileHeap, cl,
                  [IdleFlusher EXCEPT !.pc = "entry", !.keys = keys])
        /\ UNCHANGED <<NextIntentionId, db, now, panicked>>

\* the flusher's next step once it is done with fl.key
FlusherNext(res) ==
    [IdleFlusher EXCEPT !.pc = IF fl.keys = {} THEN "idle" ELSE "entry",
                        !.keys = fl.keys, !.key = fl.key, !.quiet = fl.quiet, !.res = res]

(* the loop takes a key of its snapshot and the entry s.Cache holds for it,
   which it hands to flushEntry; a key with no entry is passed over *)
FlusherTake ==
    /\ ~panicked /\ fl.pc = "entry"
    /\ fl.keys # {}
    /\ \E k \in fl.keys :
         LET rest == [fl EXCEPT !.keys = fl.keys \ {k}, !.key = k, !.res = ""]
         IN  Commit(Cache, dataHeap, fileHeap, cl,
                    IF ~Cache[k].present
                    THEN [rest EXCEPT !.pc = IF rest.keys = {} THEN "idle" ELSE "entry",
                                      !.quiet = FALSE]
                    ELSE [rest EXCEPT !.pc = "select", !.ent = "live", !.quiet = AllIdle])
    /\ UNCHANGED <<NextIntentionId, db, now, panicked>>

\* the *CacheEntry flushEntry was handed: the entry of s.Cache, or the object
\* as it was when it left s.Cache
flushEntryArg == IF fl.ent = "live" THEN Cache[fl.key] ELSE fl.gone

(* flushEntry: getDirtyDataEntries(entry) *)
FlushEntrySelect ==
    LET r == getDirtyDataEntries(flushEntryArg, dataHeap, fileHeap)
    IN  /\ ~panicked /\ fl.pc = "select"
        /\ Commit(Cache, r.heap, fileHeap, cl,
                  [fl EXCEPT !.ent = "none", !.gone = NoEntry,
                             !.fileEntry = r.fileEntry, !.dirtyData = r.dirtyData,
                             !.pc = IF r.fileEntry = 0 /\ Len(r.dirtyData) = 0
                                    THEN "trydel" ELSE "write"])
        /\ UNCHANGED <<NextIntentionId, db, now, panicked>>

(* flushEntry: nothing to write, tryDeleteCacheEntry *)
FlushEntryTryDelete ==
    /\ ~panicked /\ fl.pc = "trydel"
    /\ Commit(tryDeleteCacheEntry(Cache, fl.key), dataHeap, fileHeap, cl,
              FlusherNext(IF ~Cache[fl.key].present THEN "absent"
                          ELSE IF tryDeleteCacheEntry(Cache, fl.key)[fl.key].present
                          THEN "kept" ELSE "evicted"))
    /\ UNCHANGED <<NextIntentionId, db, now, panicked>>

\* flushEntry after a dbWriteCacheEntry that returned no error: the heaps it leaves
flushEntryWritten(dh, fh, fileEntry, dirtyData) == [dataHeap |-> dh, fileHeap |-> fh]

\* the descriptors a reader without the lock can put together from the ones
\* the FileCacheEntry held while it read: Size, ModTs and every key of the map
\* Meta are read by themselves, whenever; a nil Meta is read as nil
tornFiles(seen) ==
    LET maps == {f.Meta : f \in seen} \ {NilMeta}
        keys == UNION {DOMAIN m : m \in maps}
        metas == (IF maps = {} THEN {}
                  ELSE {[k \in {x \in keys : x \in DOMAIN of[x]} |-> of[k][k]] :
                           of \in [keys -> maps]})
                   \cup ({f.Meta : f \in seen} \cap {NilMeta})
    IN  {[f EXCEPT !.Size = g.Size, !.ModTs = h.ModTs, !.Meta = m] :
            f \in seen, g \in seen, h \in seen, m \in metas}

\* the descriptors dbWriteCacheEntry can have read; none when no FileCacheEntry is given
filesRead == IF fl.fileEntry = 0 THEN {NoFile} ELSE tornFiles(fl.seen)

(* flushEntry: dbWriteCacheEntry *)
FlushEntryWrite ==
    /\ ~panicked /\ fl.pc = "write"
    /\ \/ \E fail \in BOOLEAN, file \in filesRead :
             LET r == dbWriteCacheEntry(db, fl.key, file, dataHeap, fl.fileEntry,
                                        fl.dirtyData)
                 w == flushEntryWritten(dataHeap, fileHeap, fl.fileEntry, fl.dirtyData)
             IN  /\ IF fail \/ ~r.ok
                    THEN /\ db' = db
                         /\ Commit(Cache, dataHeap, fileHeap, cl, FlusherNext("err"))
                    ELSE /\ db' = r.db
                         /\ Commit(Cache, w.dataHeap, w.fileHeap, cl, FlusherNext("ok"))
                 /\ UNCHANGED panicked
       \* a WriteMeta wrote the map File.Meta in place while this call could be
       \* reading it: the runtime may stop the process (concurrent map read and
       \* map write)
       \/ /\ fl.mapWritten
          /\ panicked' = TRUE
          /\ UNCHANGED <<Cache, dataHeap, fileHeap, cl, fl, db>>
    /\ UNCHANGED <<NextIntentionId, now>>

-----------------------------------------------------------------------------
(* The start: an empty cache over a backing store that an earlier run left *)

InitByte(i) == (i % MaxByte) + 1

\* the options of the circular files of the model
CircOpts == [MaxSize |-> CircMaxSize, Circular |-> TRUE, IJson |-> FALSE]

\* a file of n bytes as a flush leaves it in the backing store
InitDbFile(n, circular) ==
    [exists |-> TRUE,
     file |-> [NoFile EXCEPT !.Size = n,
                             !.Opts = IF circular THEN CircOpts ELSE NoOpts],
     parts |-> [p \in 0..((n - 1) \div PartSize) |->
                  [i \in 1..Min(PartSize, n - p * PartSize) |-> InitByte(p * PartSize + i - 1)]]]

InitWith(D, budget) ==
    /\ Cache = [k \in Keys |-> NoEntry]
    /\ NextIntentionId = 1
    /\ dataHeap = <<>>
    /\ fileHeap = <<>>
    /\ db \in [Keys -> D]
    /\ cl = [c \in Clients |-> [IdleClient EXCEPT !.nops = budget[c]]]
    /\ fl = IdleFlusher
    /\ now = 0
    /\ panicked = FALSE

Flusher ==
    FlusherScan \/ FlusherTake \/ FlushEntrySelect \/ FlushEntryTryDelete \/ FlushEntryWrite

\* the steps of an operation in flight, by the operations that take them
WriteSteps(c) ==
    \/ SetIntention(c)
    \/ LoadFileInfoCache(c)
    \/ LoadFileInfoDb(c)
    \/ LoadFileInfoInstall(c)
    \/ WriteToCache(c)
    \/ ClearIntention(c)

PartSteps(c) == LoadDataPartsDb(c) \/ LoadDataPartsInstall(c)

ReadSteps(c) ==
    \/ StatCache(c)
    \/ StatDb(c)
    \/ ReadPartsDb(c)
    \/ ReadOverlay(c)
    \/ ReadAssemble(c)

ReadFileSteps(c, h) == ReadFileDb(c, h) \/ ReadFilePin(c)

LifeSteps(c, h) == MakeFileDb(c, h) \/ DeleteFileCache(c, h)

BlockSteps(c, h) == DeleteBlockDb(c, h) \/ DeleteBlockCache(c, h)

-----------------------------------------------------------------------------
(* Spec: two clients and the flusher, every interleaving *)

ConcData == {<<1>>}

ConcOffsets == {0, 2}

ConcMeta == {[a |-> 1]}

Init == InitWith({NoDbFile, InitDbFile(1, FALSE)},
                 [c \in Clients |-> IF c = First THEN MaxOps
                                    ELSE IF c = Second THEN MaxOpsOther ELSE 0])

Next ==
    \/ \E c \in Clients, k \in Keys :
         \/ MakeFile(c, k, EmptyMeta, NoOpts, 0)
         \/ DeleteFile(c, k, 0)
         \/ \E d \in ConcData : AppendData(c, k, d, 0)
         \/ \E d \in ConcData, o \in ConcOffsets : WriteAt(c, k, o, d, 0)
         \/ \E d \in ConcData : WriteFile(c, k, d, 0)
         \/ \E m \in ConcMeta : WriteMeta(c, k, m, TRUE, 0)
         \/ ReadAt(c, k, 0, 1, 0)
    \/ \E c \in Clients :
         \/ FlushCache(c, 1)
         \/ WriteSteps(c)
         \/ LoadLastDataBlock(c)
         \/ PartSteps(c)
         \/ WriteMetaToCache(c)
         \/ ReadSteps(c)
         \/ LifeSteps(c, 0)
         \/ Unpin(c, 0)
    \/ Flusher

Spec == Init /\ [][Next]_vars

-----------------------------------------------------------------------------
(* One client and the flusher: what a caller sees of its own operations, the
   last of them kept in its history *)

Alone(n) == [c \in Clients |-> IF c = First THEN n ELSE 0]

(* SpecAppend: appends and reads over every file the store may hold at start *)

MaxAppendOps == 3

AppendHist == 3

AppendData3 == {<<1>>, <<2, 1>>, <<2, 2, 1>>}

InitAppend ==
    InitWith({NoDbFile} \cup {InitDbFile(n, circular) :
                                 n \in 0..MaxInitLen, circular \in BOOLEAN},
             Alone(MaxAppendOps))

NextAppend ==
    \/ \E k \in Keys :
         \/ \E d \in AppendData3 : AppendData(First, k, d, AppendHist)
         \/ \E o \in {0, 1}, n \in {1, 3} : ReadAt(First, k, o, n, AppendHist)
         \/ ReadFile(First, k, AppendHist)
    \/ ReadFileSteps(First, AppendHist)
    \/ WriteSteps(First)
    \/ LoadLastDataBlock(First)
    \/ PartSteps(First)
    \/ ReadSteps(First)
    \/ Unpin(First, AppendHist)
    \/ FlusherScan
    \/ FlusherTake
    \/ FlushEntrySelect
    \/ FlushEntryWrite

SpecAppend == InitAppend /\ [][NextAppend]_vars

(* SpecWriteFile: WriteFile and ReadFile through deletions and re-creations *)

MaxRewriteOps == 5

PairHist == 2

RewriteData == {<<1>>, <<2, 2, 1>>}

InitWriteFile == InitWith({InitDbFile(MaxInitLen, FALSE)}, Alone(MaxRewriteOps))

NextWriteFile ==
    \/ \E k \in Keys :
         \/ MakeFile(First, k, EmptyMeta, NoOpts, PairHist)
         \/ DeleteFile(First, k, PairHist)
         \/ \E d \in RewriteData : WriteFile(First, k, d, PairHist)
         \/ ReadFile(First, k, PairHist)
    \/ ReadFileSteps(First, PairHist)
    \/ WriteSteps(First)
    \/ ReadSteps(First)
    \/ LifeSteps(First, PairHist)
    \/ Unpin(First, PairHist)
    \/ Flusher

SpecWriteFile == InitWriteFile /\ [][NextWriteFile]_vars

(* SpecWriteAt: WriteAt and ReadAt through deletions and re-creations *)

WriteAtArgs == {<<0, <<1>> >>, <<1, <<2, 1>> >>}

NextWriteAt ==
    \/ \E k \in Keys :
         \/ MakeFile(First, k, EmptyMeta, NoOpts, PairHist)
         \/ DeleteFile(First, k, PairHist)
         \/ \E a \in WriteAtArgs : WriteAt(First, k, a[1], a[2], PairHist)
         \/ \E a \in WriteAtArgs : ReadAt(First, k, a[1], Len(a[2]), PairHist)
    \/ WriteSteps(First)
    \/ PartSteps(First)
    \/ ReadSteps(First)
    \/ LifeSteps(First, PairHist)
    \/ Unpin(First, PairHist)
    \/ Flusher

SpecWriteAt == InitWriteFile /\ [][NextWriteAt]_vars

(* SpecExtent: the three writes in every order, all of them kept in the history *)

MaxExtentOps == 3

ExtentHist == 3

ExtentData == {<<1>>, <<2, 1>>}

ExtentWriteAt == {<<0, <<1>> >>, <<1, <<2, 2, 1>> >>}

InitExtent ==
    InitWith({InitDbFile(n, circular) : n \in {0, MaxInitLen}, circular \in BOOLEAN},
             Alone(MaxExtentOps))

NextExtent ==
    \/ \E k \in Keys :
         \/ \E d \in ExtentData : AppendData(First, k, d, ExtentHist)
         \/ \E d \in ExtentData : WriteFile(First, k, d, ExtentHist)
         \/ \E a \in ExtentWriteAt : WriteAt(First, k, a[1], a[2], ExtentHist)
    \/ WriteSteps(First)
    \/ LoadLastDataBlock(First)
    \/ PartSteps(First)
    \/ Unpin(First, ExtentHist)
    \/ FlusherScan
    \/ FlusherTake
    \/ FlushEntrySelect
    \/ FlushEntryWrite

SpecExtent == InitExtent /\ [][NextExtent]_vars

(* SpecLife: one client makes and deletes the file while another one reads or
   writes it *)

MaxLifeOps == 3

LifeHist == 1


InitLife ==
    InitWith({NoDbFile, InitDbFile(1, FALSE)},
             [c \in Clients |-> IF c = First THEN MaxLifeOps
                                ELSE IF c = Second THEN MaxOps ELSE 0])

NextLife ==
    \/ \E k \in Keys :
         \/ MakeFile(First, k, EmptyMeta, NoOpts, LifeHist)
         \/ DeleteFile(First, k, LifeHist)
         \/ \E d \in ConcData : AppendData(Second, k, d, 0)
         \/ ReadAt(Second, k, 0, 1, 0)
    \/ DeleteBlock(First, LifeHist)
    \/ LifeSteps(First, LifeHist)
    \/ BlockSteps(First, LifeHist)
    \/ WriteSteps(Second)
    \/ LoadLastDataBlock(Second)
    \/ PartSteps(Second)
    \/ ReadSteps(Second)
    \/ Unpin(Second, 0)
    \/ Flusher

SpecLife == InitLife /\ [][NextLife]_vars

-----------------------------------------------------------------------------
(* Writes before and across the live window of a circular file, with a clock
   that moves between the calls: one client, the flusher at work *)

MaxNow == 1

\* time.Now().UnixMilli() grows
Tick ==
    /\ ~panicked /\ now < MaxNow
    /\ now' = now + 1
    /\ UNCHANGED <<Cache, NextIntentionId, dataHeap, fileHeap, db, cl, fl, panicked>>

InitWindow == InitWith({InitDbFile(MaxInitLen, TRUE)}, Alone(MaxExtentOps))

NextWindow == NextExtent \/ Tick

SpecWindow == InitWindow /\ [][NextWindow]_vars

-----------------------------------------------------------------------------
(* ListFiles: the files of the backing store, each seen through the cache *)

\* getBlockFiles: the records of the files the store holds; an element of the
\* list is a *BlockFile, nil or the descriptor of the file of a key
dbGetBlockFiles(D) ==
    LET all == [i \in DOMAIN KeyOrder |->
                  [isNil |-> ~D[KeyOrder[i]].exists, key |-> KeyOrder[i],
                   file |-> D[KeyOrder[i]].file]]
    IN  SelectSeq(all, LAMBDA f : ~f.isNil)

stripNils(files) == SelectSeq(files, LAMBDA f : ~f.isNil)

\* one round of the loop of ListFiles, cacheFile and ok coming from getFileFromCache
listFilesRound(files, idx, r) ==
    IF r.cached
    THEN [files EXCEPT ![idx] = [isNil |-> r.isNil, key |-> files[idx].key, file |-> r.file]]
    ELSE files

\* the end of ListFiles
listFilesResult(files) ==
    LET hasNils == \E i \in DOMAIN files : files[i].isNil
    IN  IF hasNils THEN stripNils(files) ELSE files

ListFiles(c, h) ==
    /\ CanStart(c)
    /\ cl' = [cl EXCEPT ![c] = [Start(c, "ListFiles", DefaultKey, h) EXCEPT !.pc = "lf_db"]]
    /\ fl' = Disturbed
    /\ UNCHANGED <<Cache, NextIntentionId, dataHeap, fileHeap, db, now, panicked>>

(* ListFiles: dbGetBlockFiles *)
ListFilesDb(c, h) ==
    LET rec == cl[c]
        files == dbGetBlockFiles(db)
    IN  /\ ~panicked /\ rec.pc = "lf_db"
        /\ \E fail \in BOOLEAN :
             cl' = [cl EXCEPT ![c] =
                      IF fail THEN Finish(rec, h, "BackingStore", 0, <<>>)
                      ELSE IF Len(files) = 0 THEN Finish(rec, h, "", 0, listFilesResult(files))
                      ELSE [rec EXCEPT !.files = files, !.idx = 1, !.pc = "lf_cache"]]
        /\ UNCHANGED <<Cache, NextIntentionId, dataHeap, fileHeap, db, fl, now, panicked>>

(* ListFiles: getFileFromCache for the next file of the list; after the last
   one the list is returned, its nils stripped *)
ListFilesCache(c, h) ==
    LET rec == cl[c]
        r == getFileFromCache(Cache, fileHeap, rec.files[rec.idx].key)
        files == listFilesRound(rec.files, rec.idx, r)
    IN  /\ ~panicked /\ rec.pc = "lf_cache"
        /\ cl' = [cl EXCEPT ![c] =
                    IF rec.idx = Len(files)
                    THEN Finish(rec, h, "", 0, listFilesResult(files))
                    ELSE [rec EXCEPT !.files = files, !.idx = rec.idx + 1]]
        /\ UNCHANGED <<Cache, NextIntentionId, dataHeap, fileHeap, db, fl, now, panicked>>

-----------------------------------------------------------------------------
(* A client listing the files while a second one deletes and a third one
   appends, the flusher at work *)

MaxListOps == 2
ListHist == 1

InitList ==
    InitWith({InitDbFile(1, FALSE)},
             [c \in Clients |-> IF c = First THEN MaxListOps ELSE 1])

NextList ==
    \/ ListFiles(First, ListHist)
    \/ ListFilesDb(First, ListHist)
    \/ ListFilesCache(First, ListHist)
    \/ \E k \in Keys :
         \/ DeleteFile(Second, k, 0)
         \/ \E d \in ConcData : AppendData(Third, k, d, 0)
    \/ DeleteFileCache(Second, 0)
    \/ WriteSteps(Third)
    \/ LoadLastDataBlock(Third)
    \/ PartSteps(Third)
    \/ Unpin(Third, 0)
    \/ Flusher

SpecList == InitList /\ [][NextList]_vars

-----------------------------------------------------------------------------
(* WriteMeta: one client writing meta mappings, merged or swapped in, and
   appending, the flusher at work *)

MaxMetaOps == 2
MetaKeys == {"a", "b", "c"}
MetaValues == {Null, 2}

\* the mappings given to WriteMeta: some of the keys, each with a value or nil,
\* and the nil map
MetaInputs == UNION {[S -> MetaValues] : S \in SUBSET MetaKeys} \cup {NilMeta}

\* the mappings found in the backing store at start
InitMeta == {[k \in {} |-> Null], [k \in {"a", "c"} |-> 1]}

InitWriteMeta ==
    InitWith({[InitDbFile(1, FALSE) EXCEPT !.file.Meta = m] : m \in InitMeta},
             Alone(MaxMetaOps))

NextWriteMeta ==
    \/ \E k \in Keys :
         \/ \E m \in MetaInputs, merge \in BOOLEAN : WriteMeta(First, k, m, merge, 0)
         \/ \E d \in ConcData : AppendData(First, k, d, 0)
    \/ WriteSteps(First)
    \/ LoadLastDataBlock(First)
    \/ PartSteps(First)
    \/ WriteMetaToCache(First)
    \/ Unpin(First, 0)
    \/ FlusherScan
    \/ FlusherTake
    \/ FlushEntrySelect
    \/ FlushEntryWrite

SpecWriteMeta == InitWriteMeta /\ [][NextWriteMeta]_vars

-----------------------------------------------------------------------------
(* Two clients, one WriteAt each, on different parts of the same file of
   MaxInitLen bytes, every interleaving of their steps, the flusher at work *)

DisjointHist == 1

\* <<offset, data>> within part 0 and within part 1
FirstPartWriteAt == {<<0, <<2>> >>, <<1, <<2>> >>, <<0, <<2, 2>> >>}
SecondPartWriteAt == {<<PartSize, <<1>> >>, <<PartSize, <<1, 1>> >>, <<PartSize + 1, <<1>> >>}

InitDisjoint ==
    InitWith({InitDbFile(MaxInitLen, circular) : circular \in BOOLEAN},
             [c \in Clients |-> IF c \in {First, Second} THEN 1 ELSE 0])

NextDisjoint ==
    \/ \E k \in Keys :
         \/ \E a \in FirstPartWriteAt : WriteAt(First, k, a[1], a[2], DisjointHist)
         \/ \E a \in SecondPartWriteAt : WriteAt(Second, k, a[1], a[2], DisjointHist)
    \/ \E c \in {First, Second} :
         \/ WriteSteps(c)
         \/ PartSteps(c)
         \/ Unpin(c, DisjointHist)
    \/ FlusherScan
    \/ FlusherTake
    \/ FlushEntrySelect
    \/ FlushEntryWrite

SpecDisjoint == InitDisjoint /\ [][NextDisjoint]_vars

-----------------------------------------------------------------------------
(* The claims *)

EntryParts(k) == SeqRange(Cache[k].DataEntries) \ {0}

\* C1: after a flush pass over an entry whose write to the backing store
\* succeeded, with no operation started since the pass selected its buffers,
\* every FileBuffer and PartBuffer of the entry is neither dirty nor flushing.
C1_FlushPassClearsFlags ==
    (fl.res = "ok" /\ fl.quiet /\ Cache[fl.key].present) =>
        /\ Cache[fl.key].FileEntry # 0 =>
              /\ ~fileHeap[Cache[fl.key].FileEntry].Dirty
              /\ ~fileHeap[Cache[fl.key].FileEntry].Flushing
        /\ \A p \in EntryParts(fl.key) : ~dataHeap[p].Dirty /\ ~dataHeap[p].Flushing

\* the dirty buffers of k, as the scan of FlushCache finds them, are in the store
HandedToStore(k) ==
    (withLockExists(Cache, k) /\ k \in dirtyCacheKeys(Cache, dataHeap, fileHeap)) =>
        /\ db'[k].exists
        /\ fileHeap[Cache[k].FileEntry].Dirty =>
              db'[k].file = fileHeap[Cache[k].FileEntry].File
        /\ \A p \in EntryParts(k) :
              dataHeap[p].Dirty =>
                 /\ dataHeap[p].PartIdx \in DOMAIN db'[k].parts
                 /\ db'[k].parts[dataHeap[p].PartIdx] = dataHeap[p].Data

\* C2: when FlushCache returns without error, every buffer that was dirty when
\* it took its snapshot has been written to the backing store.
C2_FlushCacheFlushes ==
    [][\A c \in Clients : FlushCache(c, 1) => \A k \in Keys : HandedToStore(k)]_vars

\* C3: a PartBuffer or FileBuffer whose flushing flag is set keeps its payload
\* over every step, and a slot that still holds it was not written: a write to
\* it went to a clone that took the slot.
C3_FlushingNeverMutated ==
    [][/\ \A p \in DOMAIN dataHeap \cap DOMAIN dataHeap' :
              dataHeap[p].Flushing => dataHeap'[p].Data = dataHeap[p].Data
       /\ \A q \in DOMAIN fileHeap \cap DOMAIN fileHeap' :
              fileHeap[q].Flushing => fileHeap'[q].File = fileHeap[q].File]_vars

\* a write took place on a part the flusher holds: the slot has the clone
C3_Witness ==
    \E k \in Keys, p \in DOMAIN dataHeap, q \in DOMAIN dataHeap :
        /\ p # q
        /\ p \in SeqRange(fl.dirtyData)
        /\ dataHeap[p].Flushing
        /\ q \in EntryParts(k)
        /\ dataHeap[q].PartIdx = dataHeap[p].PartIdx
        /\ ~dataHeap[q].Flushing /\ dataHeap[q].Dirty

\* C4: a step that takes an entry out of the registry starts with the entry's
\* pinCount 0 and its writeIntentions empty.
C4_RemovedOnlyUnpinned ==
    [][\A k \in Keys :
          (Cache[k].present /\ ~Cache'[k].present) =>
              Cache[k].PinCount = 0 /\ DOMAIN Cache[k].WriteIntentions = {}]_vars

\* the flusher's tryDeleteCacheEntry was refused by a pin
C4_Witness == fl.res = "kept" /\ Cache[fl.key].present /\ Cache[fl.key].PinCount > 0

\* the operation of c is between its pinCacheEntry and its unpinCacheEntry
Holding(c) ==
    cl[c].pc \in {"setint", "lfi_cache", "lfi_db", "lfi_install", "llb_idx", "ldp_db",
                  "ldp_install", "ap_write", "wf_write", "wa_write", "wm_mod",
                  "clearint", "unpin", "stat_cache", "stat_db", "rd_db", "rd_overlay",
                  "rd_asm"}

\* C5: pinCount is the number of operations in flight on the key (so never
\* negative), the write intentions are those of the operations in flight, and
\* with every operation returned pinCount is 0 and writeIntentions is empty.
C5_PinsAndIntentionsReleased ==
    \A k \in Keys :
        /\ Cache[k].PinCount = Cardinality({c \in Clients : Holding(c) /\ cl[c].key = k})
        /\ DOMAIN Cache[k].WriteIntentions =
              {cl[c].intentionId : c \in {x \in Clients : cl[x].deferClear /\ cl[x].key = k}}
        /\ Cache[k].PinCount >= 0
        /\ AllIdle => Cache[k].PinCount = 0 /\ DOMAIN Cache[k].WriteIntentions = {}

\* both clients hold a pin and one is leaving on an error of the backing store
C5_Witness ==
    \E c \in Clients :
        /\ cl[c].pc = "clearint" /\ cl[c].err = "BackingStore"
        /\ Cache[cl[c].key].PinCount = 2

\* the contents of a file as the claims mean them: the bytes of its parts, the
\* cached part before the store's, from offset 0 (from size - maxSize for a
\* circular file that has wrapped) to the size; g is the state of a key
ContentsOf(g) ==
    LET f == g.file
        start == IF f.Opts.Circular /\ f.Size > f.Opts.MaxSize
                 THEN f.Size - f.Opts.MaxSize ELSE 0
    IN  assembleLoop(f, g.parts, start, f.Size - start, <<>>)

\* the contents of the file of key k now
LogicalContents(k) == ContentsOf(GhostAt(k, 1))

\* the operations of the lone client that returned, the last one first
Returned == cl[First].hist

\* the last n bytes of s
LastBytes(s, n) == IF Len(s) <= n THEN s ELSE SubSeq(s, Len(s) - n + 1, Len(s))

\* C6: on a non-circular file, ReadFile right after a WriteFile(X) that returned
\* no error returns (0, X), whatever the file held before (the backing store
\* answering the read).
C6_WriteFileThenReadFile ==
    (/\ Len(Returned) >= 2
     /\ Returned[1].op = "ReadFile" /\ Returned[1].err # "BackingStore"
     /\ Returned[2].op = "WriteFile" /\ Returned[2].err = "" /\ ~Returned[2].g.file.Opts.Circular)
    => /\ Returned[1].err = ""
       /\ Returned[1].roff = 0
       /\ Returned[1].rdata = Returned[2].data

\* C7: on a non-circular file, ReadFile right after AppendData(A) and
\* AppendData(B) that returned no error returns offset 0 and the contents the
\* file had before the appends followed by A and by B, also when the appends
\* found the last part, partly filled, only in the backing store (the backing
\* store answering the read).
C7_AppendsThenReadFile ==
    (/\ Len(Returned) >= 3
     /\ Returned[1].op = "ReadFile" /\ Returned[1].err # "BackingStore"
     /\ Returned[2].op = "AppendData" /\ Returned[2].err = ""
     /\ Returned[3].op = "AppendData" /\ Returned[3].err = "" /\ ~Returned[3].g.file.Opts.Circular)
    => /\ Returned[1].err = ""
       /\ Returned[1].roff = 0
       /\ Returned[1].rdata = ContentsOf(Returned[3].g) \o Returned[3].data \o Returned[2].data

\* C8: on a non-circular file, ReadAt(off, len(X)) right after a WriteAt(off, X)
\* that returned no error (so 0 <= off <= size) returns (off, X) (the backing
\* store answering the read).
C8_WriteAtThenReadAt ==
    (/\ Len(Returned) >= 2
     /\ Returned[1].op = "ReadAt" /\ Returned[1].err # "BackingStore"
     /\ Returned[2].op = "WriteAt" /\ Returned[2].err = "" /\ ~Returned[2].g.file.Opts.Circular
     /\ Returned[1].off = Returned[2].off
     /\ Returned[1].n = Len(Returned[2].data))
    => /\ Returned[1].err = ""
       /\ Returned[1].roff = Returned[2].off
       /\ Returned[1].rdata = Returned[2].data

\* C9: on a circular file, ReadFile right after two appends that returned no
\* error and are longer together than maxSize returns the last maxSize bytes
\* appended, with the offset size - maxSize (the backing store answering the
\* read).
C9_CircularKeepsLastBytes ==
    (/\ Len(Returned) >= 3
     /\ Returned[1].op = "ReadFile" /\ Returned[1].err # "BackingStore"
     /\ Returned[2].op = "AppendData" /\ Returned[2].err = ""
     /\ Returned[3].op = "AppendData" /\ Returned[3].err = "" /\ Returned[3].g.file.Opts.Circular
     /\ Len(Returned[3].data) + Len(Returned[2].data) > CircMaxSize)
    => /\ Returned[1].err = ""
       /\ Returned[1].roff = Returned[3].g.file.Size + Len(Returned[3].data)
                                + Len(Returned[2].data) - CircMaxSize
       /\ Returned[1].rdata = LastBytes(Returned[3].data \o Returned[2].data, CircMaxSize)

\* C10: a read that starts with the file in the backing store and no FileBuffer
\* in the cache, and that the backing store does not fail, returns no error and
\* the bytes of the backing store.
C10_ReadOfUncachedFile ==
    (/\ Len(Returned) >= 1
     /\ Returned[1].op \in {"ReadFile", "ReadAt"}
     /\ Returned[1].g.inDb /\ ~Returned[1].g.cached
     /\ Returned[1].err # "BackingStore")
    => /\ Returned[1].err = ""
       /\ Returned[1].op = "ReadFile" => Returned[1].rdata = ContentsOf(Returned[1].g)
       /\ (Returned[1].op = "ReadAt" /\ ~Returned[1].g.file.Opts.Circular
             /\ Returned[1].off + Returned[1].n <= Returned[1].g.file.Size)
          => Returned[1].rdata =
                SubSeq(ContentsOf(Returned[1].g), Returned[1].off + 1,
                       Returned[1].off + Returned[1].n)

\* c takes the step that decides how its operation ends, looking at the cache
\* or at the backing store (the assembly of a read's bytes returns no error and
\* looks at neither the entry nor the store, only at the parts it holds)
Decides(c) ==
    /\ cl[c].pc \notin {"idle", "clearint", "unpin", "rd_asm"}
    /\ cl'[c].pc \in {"clearint", "unpin"}

\* the FileBuffer and the PartBuffers of k are the same objects with the same
\* contents after the step
BuffersUnchanged(k) ==
    /\ Cache'[k].FileEntry = Cache[k].FileEntry
    /\ Cache'[k].DataEntries = Cache[k].DataEntries
    /\ Cache[k].FileEntry # 0 => fileHeap'[Cache[k].FileEntry] = fileHeap[Cache[k].FileEntry]
    /\ \A p \in EntryParts(k) : dataHeap'[p] = dataHeap[p]

\* C11: a ReadAt, ReadFile, WriteAt, AppendData, WriteFile or WriteMeta that is
\* decided while the entry of its key is marked deleted ends with the error
\* NotFound or FileDeleted (or the error of a failing backing store), never with
\* success and never with a crash, and leaves the entry's buffers unchanged.
C11_DeletedEntryRejects ==
    [][\A c \in Clients :
          (/\ Decides(c)
           /\ Cache[cl[c].key].present /\ Cache[cl[c].key].Deleted)
          => /\ cl'[c].err \in {"NotFound", "FileDeleted", "BackingStore"}
             /\ BuffersUnchanged(cl[c].key)]_vars

\* c applies the bytes of its WriteAt under the lock
AppliesWriteAt(c) ==
    /\ cl[c].op = "WriteAt" /\ cl[c].pc = "wa_write"
    /\ cl'[c].pc = "clearint" /\ cl'[c].err = ""

\* c's WriteAt gets the file from loadFileInfo
ChecksWriteAt(c) ==
    /\ cl[c].op = "WriteAt" /\ cl[c].pc \in {"lfi_cache", "lfi_install"}
    /\ cl'[c].pc \notin {"lfi_cache", "lfi_install", "lfi_db"}
    /\ cl'[c].err \notin {"NotFound", "FileDeleted", "BackingStore"}

\* C12: a WriteAt whose offset is past the size of the file it loaded fails
\* with a validation error, and the bytes of a WriteAt are applied under the
\* lock only at an offset that is not past the size the file has at that moment,
\* whatever other writers did in between.
C12_WriteAtNoSparseHole ==
    [][\A c \in Clients :
          /\ (ChecksWriteAt(c) /\ cl[c].argOff > cl'[c].file.Size)
                => cl'[c].err = "InvalidArgument"
          /\ AppliesWriteAt(c)
                => cl[c].off <= fileHeap[Cache[cl[c].key].FileEntry].File.Size]_vars

\* the end offset of the write Returned[i], after a file of size prev
WriteExtent(i, prev) ==
    LET r == Returned[i]
    IN  CASE r.op = "WriteFile" -> Len(r.data)
          [] r.op = "AppendData" -> prev + Len(r.data)
          [] r.op = "WriteAt" -> r.off + Len(r.data)
          [] OTHER -> 0

\* the size of the file once the operations Returned[i], ..., the oldest first,
\* have returned: a WriteFile sets it, another write only raises it
RECURSIVE SizeAfter(_)
SizeAfter(i) ==
    IF i > Len(Returned) THEN Returned[Len(Returned)].g.file.Size
    ELSE LET prev == SizeAfter(i + 1)
             r == Returned[i]
         IN  IF r.err # "" THEN prev
             ELSE IF r.op = "WriteFile" THEN Len(r.data)
             ELSE IF WriteExtent(i, prev) > prev THEN WriteExtent(i, prev) ELSE prev

\* the highest end offset of a write among Returned[i], ..., and the size the
\* file had before them
RECURSIVE HighestExtent(_)
HighestExtent(i) ==
    IF i > Len(Returned) THEN Returned[Len(Returned)].g.file.Size
    ELSE LET prev == HighestExtent(i + 1)
             r == Returned[i]
         IN  IF r.err # "" THEN prev
             ELSE IF WriteExtent(i, SizeAfter(i + 1)) > prev
             THEN WriteExtent(i, SizeAfter(i + 1)) ELSE prev

\* every operation of the lone client has returned and the file is cached
AllReturned ==
    /\ cl[First].pc = "idle" /\ Len(Returned) >= 1
    /\ \A k \in Keys : HasFileEntry(k)

\* C13 as stated: once the operations have returned, the cached size is the
\* highest end offset of any write made so far (WriteAt, AppendData, WriteFile).
C13_SizeIsHighestExtent ==
    AllReturned => \A k \in Keys : LogicalFile(k).Size = HighestExtent(1)

\* C13: once the operations have returned, the cached size is the length of
\* the last WriteFile raised to the highest end offset of the writes after it
\* (of all the writes, and the size found in the store, without a WriteFile):
\* WriteFile sets the size to len(data), also when that shrinks the file.
C13_SizeIsExtentSinceWriteFile ==
    AllReturned => \A k \in Keys : LogicalFile(k).Size = SizeAfter(1)

\* a WriteFile has made the file shorter than an earlier write had left it
C13_Witness ==
    /\ AllReturned /\ Len(Returned) >= 2
    /\ Returned[1].op = "WriteFile" /\ Returned[1].err = ""
    /\ Returned[2].op \in {"WriteAt", "AppendData"} /\ Returned[2].err = ""
    /\ Len(Returned[1].data) < Returned[2].g.file.Size
    /\ LogicalFile(DefaultKey).Size = Len(Returned[1].data)

\* the MakeFile of c has returned err without calling the store's insert
MakeFileFailed(c, err) ==
    /\ cl'[c].pc = "idle" /\ Len(cl'[c].hist) >= 1
    /\ cl'[c].hist[1].op = "MakeFile" /\ cl'[c].hist[1].err = err
    /\ db' = db

\* the MakeFile of c goes on to the store's insert
MakeFileInserts(c) == cl'[c].pc = "mk_db"

\* C14: under the lock MakeFile fails with FileExists on an entry that is not
\* deleted and with FileBusy on a deleted entry that has a pin or an intention,
\* in both cases keeping the entry and not calling the store's insert; it
\* removes a deleted entry with neither and goes on to the insert.
C14_MakeFileDecides ==
    [][\A k \in Keys :
          MakeFile(First, k, EmptyMeta, NoOpts, LifeHist) =>
             LET e == Cache[k]
                 held == e.PinCount > 0 \/ DOMAIN e.WriteIntentions # {}
             IN  /\ (e.present /\ ~e.Deleted)
                       => MakeFileFailed(First, "FileExists") /\ Cache' = Cache
                 /\ (e.present /\ e.Deleted /\ ~held)
                       => MakeFileInserts(First) /\ ~Cache'[k].present
                 /\ (e.present /\ e.Deleted /\ held)
                       => MakeFileFailed(First, "FileBusy") /\ Cache' = Cache]_vars

\* MakeFile has found the deleted entry held by the other client and has
\* returned FileBusy
C14_Witness ==
    /\ cl[First].pc = "idle" /\ Len(Returned) >= 1
    /\ Returned[1].op = "MakeFile" /\ Returned[1].err = "FileBusy"
    /\ Cache[DefaultKey].present /\ Cache[DefaultKey].Deleted
    /\ Cache[DefaultKey].PinCount > 0

\* C15: a MakeFile whose insert into the backing store fails leaves the
\* registry as it was before the call: the step under the lock that goes on to
\* the insert (which may then fail) and the failing insert change no entry.
C15_FailedInsertKeepsCache ==
    [][\A k \in Keys :
          /\ (MakeFile(First, k, EmptyMeta, NoOpts, LifeHist) /\ MakeFileInserts(First))
                => Cache' = Cache
          /\ (MakeFileDb(First, LifeHist) /\ cl'[First].hist[1].err = "BackingStore")
                => Cache' = Cache]_vars

\* the record of c's WriteAt in a step that c's WriteAt takes
WriteAtStep(c) == cl'[c] # cl[c] /\ (cl[c].op = "WriteAt" \/ cl'[c].op = "WriteAt")

WriteAtCall(c) == IF cl[c].op = "WriteAt" THEN cl[c] ELSE cl'[c]

\* the bytes [offset, offset + len(data)) of the call all lie before the live
\* window [size - maxSize, size) of the circular file
BeforeWindow(c) ==
    LET r == WriteAtCall(c)
        f == LogicalFile(r.key)
    IN  /\ f.Opts.Circular
        /\ r.argOff + Len(r.argData) <= f.Size - f.Opts.MaxSize

\* the PartBuffers of the entry of k, and which of its buffers are dirty
PartBuffers(k) == {dataHeap[p] : p \in EntryParts(k)}

DirtyFlags(k) ==
    [file |-> HasFileEntry(k) /\ fileHeap[Cache[k].FileEntry].Dirty,
     parts |-> {dataHeap[p].PartIdx : p \in {q \in EntryParts(k) : dataHeap[q].Dirty}}]

\* C16: a WriteAt on a circular file whose byte range lies entirely before the
\* live window [size - maxSize, size) returns success and has no effect: no
\* step of it changes the entry's PartBuffers, the file's size or modTs, or a
\* dirty flag.
C16_WriteBeforeWindowDropped ==
    [][\A c \in Clients : \A k \in Keys :
          (WriteAtStep(c) /\ BeforeWindow(c) /\ WriteAtCall(c).key = k)
          => /\ PartBuffers(k)' = PartBuffers(k)
             /\ DirtyFlags(k)' = DirtyFlags(k)
             /\ LogicalFile(k)' = LogicalFile(k)
             /\ cl'[c].err \in {"", "BackingStore"}]_vars

\* c's ListFiles looks into the cache for the file of k
ListsKey(c, k) ==
    /\ cl[c].pc = "lf_cache" /\ cl'[c] # cl[c]
    /\ cl[c].files[cl[c].idx].key = k

\* what the step leaves in the list for the file of k: its descriptor, or
\* nothing when the element is nil (and stripped as the list is returned)
ListedAfter(c, k) ==
    IF cl'[c].pc = "idle"
    THEN {f.file : f \in {g \in SeqRange(cl'[c].hist[1].rdata) : g.key = k}}
    ELSE {f.file : f \in {g \in {cl'[c].files[cl[c].idx]} : ~g.isNil}}

\* the record the backing store listed for the file
ListedRecord(c) == cl[c].files[cl[c].idx].file

\* C17 as stated: for a file listed by the backing store ListFiles returns the
\* store's record when the key has no cache entry, the cache's descriptor when
\* the entry has a FileBuffer and is not deleted, and filters the file out when
\* the entry exists but is deleted or has no FileBuffer.
C17_ListFilesFiltersUnloaded ==
    [][\A c \in Clients : \A k \in Keys :
          ListsKey(c, k)
          => /\ ~Cache[k].present => ListedAfter(c, k) = {ListedRecord(c)}
             /\ (Cache[k].present /\ ~Cache[k].Deleted /\ Cache[k].FileEntry # 0)
                => ListedAfter(c, k) = {fileHeap[Cache[k].FileEntry].File}
             /\ (Cache[k].present /\ (Cache[k].Deleted \/ Cache[k].FileEntry = 0))
                => ListedAfter(c, k) = {}]_vars

\* C17, amended: for a file listed by the backing store ListFiles returns the
\* store's record when the key has no cache entry or an entry that is not
\* deleted and has no FileBuffer, the cache's descriptor when the entry has a
\* FileBuffer and is not deleted, and filters the file out only when the entry
\* is marked deleted.
C17_ListFilesFiltersDeleted ==
    [][\A c \in Clients : \A k \in Keys :
          ListsKey(c, k)
          => /\ (~Cache[k].present \/ (~Cache[k].Deleted /\ Cache[k].FileEntry = 0))
                => ListedAfter(c, k) = {ListedRecord(c)}
             /\ (Cache[k].present /\ ~Cache[k].Deleted /\ Cache[k].FileEntry # 0)
                => ListedAfter(c, k) = {fileHeap[Cache[k].FileEntry].File}
             /\ (Cache[k].present /\ Cache[k].Deleted)
                => ListedAfter(c, k) = {}]_vars

\* ListFiles has returned the store's record of a file whose entry is pinned
\* but not loaded, not deleted
C17_Witness ==
    /\ cl[First].pc = "idle" /\ Len(cl[First].hist) = 1
    /\ cl[First].hist[1].op = "ListFiles" /\ cl[First].hist[1].err = ""
    /\ \E k \in Keys :
         /\ Cache[k].present /\ ~Cache[k].Deleted /\ Cache[k].FileEntry = 0
         /\ \E i \in DOMAIN cl[First].hist[1].rdata :
              /\ cl[First].hist[1].rdata[i].key = k
              /\ cl[First].hist[1].rdata[i].file = db[k].file

\* c's WriteMeta runs its callback under the lock: withLockExists found the
\* entry, not deleted, with its FileBuffer
RunsWriteMeta(c, k) ==
    /\ cl[c].op = "WriteMeta" /\ cl[c].pc = "wm_mod" /\ cl[c].key = k
    /\ withLockExists(Cache, k)
    /\ cl'[c].pc # "wm_mod"

\* a FileMeta as a mapping: the nil map has no keys
MappingOf(meta) == IF meta = NilMeta THEN EmptyMeta ELSE meta

FileMetaOf(k) == MappingOf(LogicalFile(k).Meta)

\* the mapping WriteMeta was given
GivenMeta(c) == MappingOf(cl[c].meta)

\* C18: WriteMeta with merge=true deletes every top-level key given with a nil
\* value, assigns every other given key and leaves the other keys as they were;
\* with merge=false the meta becomes the given mapping; in both cases the
\* FileBuffer is marked dirty and the file's size and its parts are unchanged.
C18_WriteMetaMerges ==
    [][\A c \in Clients : \A k \in Keys :
          RunsWriteMeta(c, k)
          => /\ cl[c].merge
                => \A x \in MetaKeys :
                     IF x \in DOMAIN GivenMeta(c)
                     THEN IF GivenMeta(c)[x] = Null
                          THEN x \notin DOMAIN FileMetaOf(k)'
                          ELSE /\ x \in DOMAIN FileMetaOf(k)'
                               /\ FileMetaOf(k)'[x] = GivenMeta(c)[x]
                     ELSE /\ x \in DOMAIN FileMetaOf(k)' <=> x \in DOMAIN FileMetaOf(k)
                          /\ x \in DOMAIN FileMetaOf(k) => FileMetaOf(k)'[x] = FileMetaOf(k)[x]
             /\ ~cl[c].merge
                => /\ DOMAIN FileMetaOf(k)' = DOMAIN GivenMeta(c)
                   /\ \A x \in DOMAIN GivenMeta(c) : FileMetaOf(k)'[x] = GivenMeta(c)[x]
             /\ DirtyFlags(k)'.file
             /\ LogicalFile(k)'.Size = LogicalFile(k).Size
             /\ PartBuffers(k)' = PartBuffers(k)
             /\ LogicalParts(k)' = LogicalParts(k)]_vars

\* C19: as the flusher selects the buffers of an entry it sets flushing, under
\* the lock, on every buffer it hands to the backing-store write, the FileBuffer
\* included, and it hands over the FileBuffer only if that is dirty; so while
\* the write of the flusher reads them without the lock, no step of a WriteMeta,
\* WriteAt, AppendData or WriteFile changes the payload of one of these buffers.
C19_SelectedBuffersFlushing ==
    [][/\ (fl.pc = "select" /\ fl'.pc = "write")
          => /\ fl'.fileEntry # 0
                => /\ fileHeap'[fl'.fileEntry].Flushing
                   /\ fileHeap'[fl'.fileEntry].Dirty
             /\ \A p \in SeqRange(fl'.dirtyData) : dataHeap'[p].Flushing
       /\ (fl.pc = "write" /\ fl'.pc = "write")
          => /\ fl.fileEntry # 0
                => fileHeap'[fl.fileEntry].File = fileHeap[fl.fileEntry].File
             /\ \A p \in SeqRange(fl.dirtyData) : dataHeap'[p].Data = dataHeap[p].Data]_vars

\* c's AppendData or WriteAt writes its bytes into the cached parts of k
WritesParts(c, k) ==
    /\ cl[c].pc \in {"ap_write", "wa_write"} /\ cl[c].key = k
    /\ cl'[c].pc = "clearint" /\ cl'[c].err = ""

\* the places <<part, offset in the part>> the write of c puts a byte at
WrittenPlaces(c, k) ==
    LET f == fileHeap[Cache[k].FileEntry].File
        offset == IF cl[c].pc = "ap_write" THEN f.Size ELSE cl[c].off
    IN  {<<partIdxAtOffset(f, pos), pos % PartSize>> :
            pos \in offset..(offset + Len(cl[c].data) - 1)}

\* C20: a write into the range [o, o+n) of a cached part leaves every other
\* byte of the part as it was, also when the part is flushing and the write
\* goes to a clone: the buffer in the slot after the write has the old bytes
\* outside the range and the new ones inside it, is not shorter than the old
\* one, and is dirty.
C20_WriteKeepsOtherBytes ==
    [][\A c \in Clients : \A k \in Keys :
          WritesParts(c, k)
          => \A p \in 0..(Len(Cache[k].DataEntries) - 1) :
               (Cache[k].DataEntries[p + 1] # 0 /\ \E j \in 0..(PartSize - 1) :
                                                    <<p, j>> \in WrittenPlaces(c, k))
               => LET old == dataHeap[Cache[k].DataEntries[p + 1]]
                      new == dataHeap'[Cache'[k].DataEntries[p + 1]]
                  IN  /\ Len(new.Data) >= Len(old.Data)
                      /\ new.Dirty
                      /\ \A j \in 0..(Len(old.Data) - 1) :
                           <<p, j>> \notin WrittenPlaces(c, k)
                           => /\ j < Len(new.Data)
                              /\ new.Data[j + 1] = old.Data[j + 1]
                      /\ \A j \in 0..(Len(new.Data) - 1) :
                           <<p, j>> \in WrittenPlaces(c, k) => new.Data[j + 1] \in SeqRange(cl[c].data)]_vars

\* the flusher's tryDeleteCacheEntry removes the entry of k, which is not
\* marked deleted
FlusherEvictsLive(k) ==
    /\ fl.pc = "trydel" /\ fl.key = k /\ fl' # fl
    /\ Cache[k].present /\ ~Cache[k].Deleted
    /\ ~Cache'[k].present

\* C21: the flusher removes an entry that is not marked deleted from the
\* registry only in a state where none of the entry's buffers is dirty: the
\* check that nothing is dirty and the removal see the same state of the same
\* entry, so that no write is lost.
C21_FlusherEvictsOnlyClean ==
    [][\A k \in Keys :
          FlusherEvictsLive(k)
          => /\ ~DirtyFlags(k).file
             /\ DirtyFlags(k).parts = {}]_vars

\* the PartBuffers c's ReadAt took from the cache under the lock and reads,
\* combining its result, after it has released the lock
HeldForAssembly(c) ==
    IF cl[c].op \in {"ReadAt", "ReadFile"} /\ cl[c].pc = "rd_asm"
    THEN {cl[c].de[p].ptr : p \in DOMAIN cl[c].de} \ {0}
    ELSE {}

\* C22: but for the flusher and its flushing buffers, the payload of a cached
\* buffer is accessed only under the store lock: the bytes of a PartBuffer that
\* a ReadAt is to read after it has released the lock are changed by no write,
\* so that the ReadAt returns the bytes before a concurrent WriteAt or the bytes
\* after it, never a mixture.
C22_ReadAtReadsUnderLock ==
    [][\A c \in Clients : \A p \in HeldForAssembly(c) :
          cl'[c].pc = "rd_asm" => dataHeap'[p].Data = dataHeap[p].Data]_vars

Max(a, b) == IF a > b THEN a ELSE b

\* the bytes s with data written at offset
Overwrite(s, offset, data) ==
    [i \in 1..Max(Len(s), offset + Len(data)) |->
        IF i > offset /\ i <= offset + Len(data) THEN data[i - offset] ELSE s[i]]

\* the file as the two WriteAt calls found it in the backing store
InitContents == [i \in 1..MaxInitLen |-> InitByte(i - 1)]

\* both WriteAt calls have returned without error
BothWritten ==
    \A c \in {First, Second} :
        /\ cl[c].pc = "idle" /\ Len(cl[c].hist) = 1
        /\ cl[c].hist[1].op = "WriteAt" /\ cl[c].hist[1].err = ""

\* C23: two concurrent WriteAt calls on the same file that touch different
\* parts commute: however their steps interleave, once both have returned the
\* cached contents are the file with both writes applied and the size is the
\* highest of the two write extents and the size before.
C23_DisjointWritesCommute ==
    BothWritten
    => LET w1 == cl[First].hist[1]
           w2 == cl[Second].hist[1]
       IN  \A k \in Keys :
             /\ LogicalContents(k) =
                   Overwrite(Overwrite(InitContents, w1.off, w1.data), w2.off, w2.data)
             /\ LogicalFile(k).Size =
                   Max(MaxInitLen, Max(w1.off + Len(w1.data), w2.off + Len(w2.data)))

\* both calls had started before either wrote, both have written and returned,
\* and the second one made the file longer
C23_Witness ==
    /\ BothWritten
    /\ ContentsOf(cl[First].hist[1].g) = InitContents
    /\ ContentsOf(cl[Second].hist[1].g) = InitContents
    /\ \E k \in Keys : LogicalFile(k).Size > MaxInitLen

\* c's loadFileInfo, back from the backing store, takes the lock for the key k
InstallsFileInfo(c, k) ==
    /\ cl[c].pc = "lfi_install" /\ cl[c].key = k /\ cl'[c] # cl[c]

\* C24: loadFileInfo never installs a FileBuffer into an entry marked deleted,
\* it returns FileDeleted; and it never replaces a FileBuffer that is installed,
\* it returns a copy of that one: the installed FileBuffer, dirty or not, stays
\* as it is, whatever record the loader read from the backing store before.
C24_LoadFileInfoKeepsInstalled ==
    [][\A c \in Clients : \A k \in Keys :
          InstallsFileInfo(c, k)
          => /\ (Cache[k].present /\ Cache[k].Deleted)
                => /\ cl'[c].err = "FileDeleted"
                   /\ Cache'[k].FileEntry = Cache[k].FileEntry
                   /\ fileHeap' = fileHeap
             /\ (Cache[k].present /\ ~Cache[k].Deleted /\ Cache[k].FileEntry # 0)
                => /\ Cache'[k].FileEntry = Cache[k].FileEntry
                   /\ fileHeap'[Cache[k].FileEntry] = fileHeap[Cache[k].FileEntry]
                   /\ cl'[c].file = fileHeap[Cache[k].FileEntry].File
                   /\ cl'[c].err # "FileDeleted"]_vars

\* a loader is back from the backing store with a record that another caller
\* has installed and changed meanwhile: the FileBuffer is dirty and differs
\* from the record
C24_Witness ==
    \E c \in Clients :
        /\ cl[c].pc = "lfi_install"
        /\ Cache[cl[c].key].present /\ ~Cache[cl[c].key].Deleted
        /\ Cache[cl[c].key].FileEntry # 0
        /\ fileHeap[Cache[cl[c].key].FileEntry].Dirty
        /\ fileHeap[Cache[cl[c].key].FileEntry].File # cl[c].file

\* c's loadDataParts, back from the backing store, takes the lock for the key k
InstallsParts(c, k) ==
    /\ cl[c].pc = "ldp_install" /\ cl[c].key = k /\ cl'[c] # cl[c]

\* C25: loadDataParts puts a part fetched from the backing store only into a
\* slot that is empty when it installs under the lock: a slot that holds a
\* PartBuffer keeps that buffer and its bytes, and a slot that was empty gets
\* the fetched part or stays empty.
C25_LoadDataPartsFillsEmptySlots ==
    [][\A c \in Clients : \A k \in Keys :
          InstallsParts(c, k)
          => /\ \A i \in 1..Len(Cache[k].DataEntries) :
                  Cache[k].DataEntries[i] # 0
                  => /\ Len(Cache'[k].DataEntries) >= i
                     /\ Cache'[k].DataEntries[i] = Cache[k].DataEntries[i]
                     /\ dataHeap'[Cache[k].DataEntries[i]] = dataHeap[Cache[k].DataEntries[i]]
             /\ \A i \in 1..Len(Cache'[k].DataEntries) :
                  (Cache'[k].DataEntries[i] # 0
                     /\ (i > Len(Cache[k].DataEntries) \/ Cache[k].DataEntries[i] = 0))
                  => /\ (i - 1) \in DOMAIN cl[c].dbParts
                     /\ dataHeap'[Cache'[k].DataEntries[i]].Data = cl[c].dbParts[i - 1]
                     /\ ~dataHeap'[Cache'[k].DataEntries[i]].Dirty]_vars

\* a loader is back from the backing store with a part whose slot another
\* writer has filled meanwhile with a dirty buffer of other bytes
C25_Witness ==
    \E c \in Clients : \E p \in DOMAIN cl[c].dbParts :
        /\ cl[c].pc = "ldp_install"
        /\ withLockExists(Cache, cl[c].key)
        /\ Len(Cache[cl[c].key].DataEntries) > p
        /\ Cache[cl[c].key].DataEntries[p + 1] # 0
        /\ dataHeap[Cache[cl[c].key].DataEntries[p + 1]].Dirty
        /\ dataHeap[Cache[cl[c].key].DataEntries[p + 1]].Data # cl[c].dbParts[p]

\* C26: on a circular file a ReadAt that succeeds returns (off', bytes) with at
\* most maxSize bytes, each bytes[i] being the byte last written at the logical
\* offset off' + i, never a byte written at another logical offset that wraps
\* to the same place: here for a ReadAt right after one append to a file found
\* in the backing store, the bytes written being those of the file and of the
\* append, and the cache holding the last maxSize of them as the ReadAt starts.
C26_CircularReadAtLogicalBytes ==
    (/\ Len(Returned) = 2
     /\ Returned[1].op = "ReadAt" /\ Returned[1].err = ""
     /\ Returned[2].op = "AppendData" /\ Returned[2].err = "" /\ Returned[2].g.file.Opts.Circular
     /\ ContentsOf(Returned[1].g) =
            LastBytes(ContentsOf(Returned[2].g) \o Returned[2].data, CircMaxSize))
    => LET written == ContentsOf(Returned[2].g) \o Returned[2].data
       IN  /\ Len(Returned[1].rdata) <= CircMaxSize
           /\ \A i \in 1..Len(Returned[1].rdata) :
                /\ Returned[1].roff + i <= Len(written)
                /\ Returned[1].rdata[i] = written[Returned[1].roff + i]

\* C27: MakeFile fails with FileExists only if a file of that key exists, as a
\* FileBuffer in the cache or as a record of the backing store: an operation
\* that failed because the file is missing has left, once it has returned and
\* nobody holds the key, no entry behind that makes a later MakeFile of the key
\* fail.
C27_FileExistsOnlyIfFileExists ==
    [][\A k \in Keys :
          (/\ MakeFile(First, k, EmptyMeta, NoOpts, LifeHist)
           /\ MakeFileFailed(First, "FileExists")
           /\ \A c \in Clients : cl[c].pc = "idle")
          => (HasFileEntry(k) \/ db[k].exists)]_vars

====
